---- MODULE Spec2Model ----
(***************************************************************************)
(* Bot-detection engine of ChatOn-Template.                                *)
(*                                                                         *)
(*   src/JOSH/detect-bot-algo.ts   detectBotAlgo (engine, lines 24-329),   *)
(*                                 the runner's copy of it (383-631), the  *)
(*                                 run summarizers, parseScans, analyzeUrl,*)
(*                                 runOnce, runBatch                       *)
(*   src/unnamed/part_000          detectBotDuringScan                     *)
(*                                                                         *)
(* Conventions.  A scan is a record [views, likes, saves, shares,          *)
(* comments].  A metric the platform's table does not have is `undefined`  *)
(* in JavaScript; it is the value Undef here.  scanIndex is 0-based as in  *)
(* the source, sequences are 1-based: ScanAt(allScans, k) is allScans[k].  *)
(* bottedReason is the sequence of its "\n"-prefixed fragments; a fragment *)
(* is a tuple <<message, numbers interpolated into it...>>.                *)
(* Multiplications by 1.2 and 1.5 and the ratio tests are done on          *)
(* integers (10*a < 12*b for a < b*1.2).                                   *)
(***************************************************************************)
EXTENDS Integers, Sequences, FiniteSets, TLC

VARIABLES
    platform,       \* Submission.platform of the stored submission
    scans,          \* the stored scans of the submission, oldest first
    internalNotes,  \* SubmissionInfo.internalNotes: sequence of note entries
    verdict,        \* what the last detectBotDuringScan call returned
    trail,          \* botDetectionResults of each iteration of that call
    notesWrites,    \* SubmissionInfo.update calls made so far
    url,            \* host of the postUrl of the dump-data URL given to the runner
    html,           \* the scan table of the fetched page: its columns, newest first
    printed         \* what the runner wrote for that URL

scanVars == <<platform, scans, internalNotes, verdict, trail, notesWrites>>
reportVars == <<url, html, printed>>
vars == <<platform, scans, internalNotes, verdict, trail, notesWrites, url, html, printed>>

(***************************************************************************)
(* JavaScript values                                                       *)
(***************************************************************************)
\* `undefined` (a metric field the scan row does not carry)
Undef == -1

isNumber(v) == v # Undef
toNum(v) == IF isNumber(v) THEN v ELSE 0
isZeroish(v) == ~isNumber(v) \/ v = 0

\* relational operators on a possibly-undefined operand: NaN compares false
jsGt(a, b) == isNumber(a) /\ isNumber(b) /\ a > b
jsGe(a, b) == isNumber(a) /\ isNumber(b) /\ a >= b
jsLe(a, b) == isNumber(a) /\ isNumber(b) /\ a <= b
jsEq(a, b) == isNumber(a) /\ isNumber(b) /\ a = b

Abs(x) == IF x < 0 THEN -x ELSE x
Max(a, b) == IF a >= b THEN a ELSE b
Min(a, b) == IF a <= b THEN a ELSE b

\* (a / b).toFixed(1), in tenths; (a / b * 100).toFixed(2), in hundredths of a percent
toFixed1(a, b) == (20 * a + b) \div (2 * b)
toFixedPct(a, b) == IF b > 0 THEN (20000 * a + b) \div (2 * b) ELSE 0

ScanAt(allScans, k) == allScans[k + 1]

(***************************************************************************)
(* detectBotAlgo: glitch guard and bridging.  p is the Props object        *)
(* [prevScan, currentScan, platform, scanIndex, allScans, logNotes].       *)
(***************************************************************************)
hasNext(p) == p.scanIndex + 1 < Len(p.allScans)
hasPrevPrev(p) == p.scanIndex - 2 >= 0
nextScan(p) == ScanAt(p.allScans, p.scanIndex + 1)
prevPrevScan(p) == ScanAt(p.allScans, p.scanIndex - 2)

\* variant: only the transition into the dropout is guarded
glitchDropoutOnly(key, p) ==
    /\ isZeroish(p.currentScan[key])
    /\ hasNext(p)
    /\ jsGt(p.prevScan[key], 0)
    /\ toNum(nextScan(p)[key]) > 0

glitch(key, p) ==
    \/ /\ isZeroish(p.currentScan[key])
       /\ hasNext(p)
       /\ jsGt(p.prevScan[key], 0)
       /\ toNum(nextScan(p)[key]) > 0
    \/ /\ isZeroish(p.prevScan[key])
       /\ hasPrevPrev(p)
       /\ toNum(prevPrevScan(p)[key]) > 0
       /\ jsGt(p.currentScan[key], 0)

\* variant: the dropout side of the guard (first disjunct) forgotten
glitchLikesMirrorOnly(p) ==
    /\ isZeroish(p.prevScan.likes)
    /\ hasPrevPrev(p)
    /\ toNum(prevPrevScan(p).likes) > 0
    /\ jsGt(p.currentScan.likes, 0)

glitchLikes(p) == glitch("likes", p)
glitchComments(p) == glitch("comments", p)
glitchSaves(p) == glitch("saves", p)
glitchShares(p) == glitch("shares", p)

\* variant: bridging takes the next value and leaves the current views
getEffectivePairOwnViews(key, p) ==
    IF /\ hasNext(p)
       /\ isZeroish(p.currentScan[key])
       /\ toNum(p.prevScan[key]) > 0
       /\ toNum(nextScan(p)[key]) > 0
    THEN [prev |-> toNum(p.prevScan[key]),
          curr |-> toNum(nextScan(p)[key]),
          prevViews |-> p.prevScan.views,
          currViews |-> p.currentScan.views,
          bridged |-> TRUE]
    ELSE [prev |-> toNum(p.prevScan[key]),
          curr |-> toNum(p.currentScan[key]),
          prevViews |-> p.prevScan.views,
          currViews |-> p.currentScan.views,
          bridged |-> FALSE]

\* variant: bridging does not ask for a positive previous reading
getEffectivePairAnyPrev(key, p) ==
    IF /\ hasNext(p)
       /\ isZeroish(p.currentScan[key])
       /\ toNum(nextScan(p)[key]) > 0
    THEN [prev |-> toNum(p.prevScan[key]),
          curr |-> toNum(nextScan(p)[key]),
          prevViews |-> p.prevScan.views,
          currViews |-> toNum(nextScan(p).views),
          bridged |-> TRUE]
    ELSE [prev |-> toNum(p.prevScan[key]),
          curr |-> toNum(p.currentScan[key]),
          prevViews |-> p.prevScan.views,
          currViews |-> p.currentScan.views,
          bridged |-> FALSE]

getEffectivePair(key, p) ==
    IF /\ hasNext(p)
       /\ isZeroish(p.currentScan[key])
       /\ toNum(p.prevScan[key]) > 0
       /\ toNum(nextScan(p)[key]) > 0
    THEN [prev |-> toNum(p.prevScan[key]),
          curr |-> toNum(nextScan(p)[key]),
          prevViews |-> p.prevScan.views,
          currViews |-> toNum(nextScan(p).views),
          bridged |-> TRUE]
    ELSE [prev |-> toNum(p.prevScan[key]),
          curr |-> toNum(p.currentScan[key]),
          prevViews |-> p.prevScan.views,
          currViews |-> p.currentScan.views,
          bridged |-> FALSE]

matureScan(p) == p.scanIndex >= 1

RECURSIVE leadingZeros(_, _)
leadingZeros(allScans, k) ==
    IF k < Len(allScans) /\ ScanAt(allScans, k).views = 0
    THEN 1 + leadingZeros(allScans, k + 1)
    ELSE 0

\* variant: the `break` forgotten, every zero-view scan is counted
leadingZeroCountNoBreak(allScans) ==
    Cardinality({k \in 1..Len(allScans) : allScans[k].views = 0})

leadingZeroCount(allScans) == leadingZeros(allScans, 0)

(***************************************************************************)
(* detectBotAlgo: the rules, in the order the function evaluates them.     *)
(* acc is the pair of locals (shouldReject, bottedReason) plus the lines   *)
(* written to the console (notes).                                         *)
(***************************************************************************)
NoFinding == [shouldReject |-> FALSE, bottedReason |-> <<>>, notes |-> <<>>]

\* bottedReason += `\n...`; shouldReject = true;
Fire(acc, reason) ==
    [acc EXCEPT !.shouldReject = TRUE, !.bottedReason = Append(@, reason)]

checkAnomaly(acc, metric, current, previous, growthNum, growthDen, threshold, p) ==
    IF /\ previous = 0
       /\ current >= 10
       /\ p.currentScan.views * growthDen < p.prevScan.views * growthNum
    THEN Fire(acc, <<metric \o " appeared (0->n) without corresponding jump in views", current>>)
    ELSE IF /\ previous > 0
            /\ p.currentScan.views * growthDen < p.prevScan.views * growthNum
            /\ current > previous * threshold
         THEN Fire(acc, <<metric \o " grew quickly without corresponding jump in views">>)
         ELSE acc

earlyViewJump(acc, p) ==
    IF /\ matureScan(p)
       /\ p.scanIndex - leadingZeroCount(p.allScans) < 4
       /\ p.currentScan.views - p.prevScan.views >= 20000
    THEN Fire(acc, <<"early 20k+ view jump within first 5 scans">>)
    ELSE acc

viewsDoubled(acc, p) ==
    LET L == getEffectivePair("likes", p) IN
    IF /\ p.platform # "youtube" /\ p.platform # "snapchat"
       /\ L.currViews > 1000
       /\ L.currViews > L.prevViews * 2
       /\ 10 * L.curr < 12 * L.prev
    THEN Fire(acc, <<"views doubled quickly without corresponding jump in likes">>)
    ELSE acc

viewsGrew(acc, p) ==
    LET L == getEffectivePair("likes", p) IN
    IF /\ p.platform # "youtube" /\ p.platform # "snapchat"
       /\ matureScan(p) /\ ~glitchLikes(p)
       /\ L.currViews - L.prevViews >= 1000
       /\ L.curr - L.prev < 2
    THEN Fire(acc, <<"views grew but <2 likes change">>)
    ELSE acc

likesSpiked(acc, p) ==
    LET L == getEffectivePair("likes", p) IN
    IF /\ p.platform # "youtube" /\ p.platform # "snapchat"
       /\ matureScan(p) /\ ~glitchLikes(p)
       /\ L.curr > 0
       /\ 2 * L.curr > 3 * L.prev
       /\ 10 * L.currViews < 12 * L.prevViews
    THEN Fire(acc, <<"likes spiked (>=1.5x) without corresponding jump in views">>)
    ELSE acc

sharesAnomalies(acc, p) ==
    LET S == getEffectivePair("shares", p) IN
    IF matureScan(p) /\ ~glitchShares(p)
    THEN checkAnomaly(checkAnomaly(acc, "shares", S.curr, S.prev, 2, 1, 10, p),
                      "shares", S.curr, S.prev, 12, 10, 3, p)
    ELSE acc

savesAnomalies(acc, p) ==
    LET SV == getEffectivePair("saves", p) IN
    IF matureScan(p) /\ ~glitchSaves(p)
    THEN checkAnomaly(checkAnomaly(acc, "saves", SV.curr, SV.prev, 2, 1, 10, p),
                      "saves", SV.curr, SV.prev, 12, 10, 3, p)
    ELSE acc

sharesAppeared(acc, p) ==
    LET S0 == getEffectivePair("shares", p) IN
    IF /\ matureScan(p) /\ ~glitchShares(p)
       /\ jsEq(p.prevScan.shares, 0) /\ ~S0.bridged
       /\ jsGe(p.currentScan.shares, 10)
       /\ p.currentScan.views < p.prevScan.views * 2
    THEN Fire(acc, <<"shares appeared (0->X) without corresponding jump in views">>)
    ELSE acc

savesAppeared(acc, p) ==
    LET SV0 == getEffectivePair("saves", p) IN
    IF /\ matureScan(p) /\ ~glitchSaves(p)
       /\ jsEq(p.prevScan.saves, 0) /\ ~SV0.bridged
       /\ jsGe(p.currentScan.saves, 10)
       /\ p.currentScan.views < p.prevScan.views * 2
    THEN Fire(acc, <<"saves appeared (0->X) without corresponding jump in views">>)
    ELSE acc

\* variant: the threshold is exclusive
tiktokZeroSavesAbove5000(acc, p) ==
    IF /\ p.platform = "tiktok"
       /\ p.currentScan.views > 5000
       /\ jsEq(p.currentScan.saves, 0)
       /\ ~glitchSaves(p)
    THEN Fire(acc, <<"zero saves at 5k+ views (TikTok)">>)
    ELSE acc

tiktokZeroSaves(acc, p) ==
    IF /\ p.platform = "tiktok"
       /\ p.currentScan.views >= 5000
       /\ jsEq(p.currentScan.saves, 0)
       /\ ~glitchSaves(p)
    THEN Fire(acc, <<"zero saves at 5k+ views (TikTok)">>)
    ELSE acc

tiktokZeroShares(acc, p) ==
    IF /\ p.platform = "tiktok"
       /\ p.currentScan.views >= 10000
       /\ jsEq(p.currentScan.shares, 0)
       /\ ~glitchShares(p)
    THEN Fire(acc, <<"zero shares at 10k+ views (TikTok)">>)
    ELSE acc

\* variant: the reason is added and the flag is not set
zeroLikesNoFlag(acc, p) ==
    LET L0 == getEffectivePair("likes", p) IN
    IF /\ matureScan(p) /\ ~glitchLikes(p)
       /\ L0.currViews > 1000
       /\ L0.curr = 0
       /\ p.platform \in {"tiktok", "instagram", "youtube"}
    THEN [acc EXCEPT !.bottedReason = Append(@, <<"zero likes">>)]
    ELSE acc

zeroLikes(acc, p) ==
    LET L0 == getEffectivePair("likes", p) IN
    IF /\ matureScan(p) /\ ~glitchLikes(p)
       /\ L0.currViews > 1000
       /\ L0.curr = 0
       /\ p.platform \in {"tiktok", "instagram", "youtube"}
    THEN Fire(acc, <<"zero likes">>)
    ELSE acc

\* variant: the rule explains itself like the other rules do
snapchatUltraLowWithReason(acc, p) ==
    IF /\ p.platform = "snapchat"
       /\ p.currentScan.views > 20000
       /\ jsEq(p.currentScan.comments, 0)
       /\ jsLe(p.currentScan.shares, 1)
    THEN Fire(acc, <<"ultra-low engagement">>)
    ELSE acc

\* sets the flag and adds no text ("it will be summarized later")
snapchatUltraLow(acc, p) ==
    IF /\ p.platform = "snapchat"
       /\ p.currentScan.views > 20000
       /\ jsEq(p.currentScan.comments, 0)
       /\ jsLe(p.currentScan.shares, 1)
    THEN [acc EXCEPT !.shouldReject = TRUE]
    ELSE acc

\* variant: the notes are reasons
logNotesBlockRejects(acc, p) ==
    LET zero == p.logNotes /\ p.currentScan.views > 5000 /\ jsEq(p.currentScan.comments, 0)
        low == /\ p.logNotes /\ p.currentScan.views > 5000
               /\ isNumber(p.currentScan.comments)
               /\ p.currentScan.comments * 10000 < p.currentScan.views
        a1 == IF zero
              THEN Fire(acc, <<"NOTE: Zero comments", p.currentScan.views>>)
              ELSE acc
    IN  IF low
        THEN Fire(a1, <<"NOTE: Low comment ratio", p.currentScan.views>>)
        ELSE a1

\* console.log only; commentRatio = scanComments / scanViews * 100
logNotesBlock(acc, p) ==
    LET zero == p.logNotes /\ p.currentScan.views > 5000 /\ jsEq(p.currentScan.comments, 0)
        low == /\ p.logNotes /\ p.currentScan.views > 5000
               /\ isNumber(p.currentScan.comments)
               /\ p.currentScan.comments * 10000 < p.currentScan.views
        a1 == IF zero
              THEN [acc EXCEPT !.notes = Append(@, <<"NOTE: Zero comments", p.currentScan.views>>)]
              ELSE acc
    IN  IF low
        THEN [a1 EXCEPT !.notes = Append(@, <<"NOTE: Low comment ratio", p.currentScan.views>>)]
        ELSE a1

\* The quotient is computed in doubles. When the exact quotient is 3 the double
\* quotient is 3, 3.0000000000000004 or 2.9999999999999996, depending on the
\* operands; these are the operand quadruples <<prev, prevViews, curr, currViews>>
\* of the series modelled whose double quotient is 2.9999999999999996
\* ((150 / 1000) / (300 / 6000) in doubles).
quotientRoundsBelow3 == {<<150, 1000, 300, 6000>>}

\* variant: the rule is not held back on a glitched likes reading
likeRatioCollapseOnGlitch(acc, p) ==
    LET Lr == getEffectivePair("likes", p)
        prevRatioPositive == Lr.prevViews > 0 /\ Lr.prev > 0
        currRatioPositive == Lr.currViews > 0 /\ Lr.curr > 0
        bigJump == Lr.currViews >= Lr.prevViews * 5 \/ Lr.currViews - Lr.prevViews >= 5000
        dropFactorGe3 == IF currRatioPositive
                         THEN /\ Lr.prev * Lr.currViews >= 3 * Lr.curr * Lr.prevViews
                              /\ <<Lr.prev, Lr.prevViews, Lr.curr, Lr.currViews>>
                                     \notin quotientRoundsBelow3
                         ELSE TRUE
    IN  IF /\ p.platform # "youtube" /\ p.platform # "snapchat"
           /\ p.prevScan.views >= 100 /\ matureScan(p)
           /\ bigJump /\ prevRatioPositive
           /\ dropFactorGe3
        THEN Fire(acc, <<"massive view jump with like-ratio collapse",
                         toFixedPct(Lr.prev, Lr.prevViews),
                         IF currRatioPositive THEN toFixedPct(Lr.curr, Lr.currViews) ELSE 0>>)
        ELSE acc

\* prevLikeRatio / Math.max(currLikeRatio, 1e-9) >= 3, on the integers:
\* currLikeRatio >= 1e-9 exactly when curr * 10^9 >= currViews (curr >= 1 suffices
\* for the view counts modelled, all below 10^9)
likeRatioCollapse(acc, p) ==
    LET Lr == getEffectivePair("likes", p)
        prevRatioPositive == Lr.prevViews > 0 /\ Lr.prev > 0
        currRatioPositive == Lr.currViews > 0 /\ Lr.curr > 0
        bigJump == Lr.currViews >= Lr.prevViews * 5 \/ Lr.currViews - Lr.prevViews >= 5000
        dropFactorGe3 == IF currRatioPositive
                         THEN /\ Lr.prev * Lr.currViews >= 3 * Lr.curr * Lr.prevViews
                              /\ <<Lr.prev, Lr.prevViews, Lr.curr, Lr.currViews>>
                                     \notin quotientRoundsBelow3
                         ELSE TRUE
    IN  IF /\ p.platform # "youtube" /\ p.platform # "snapchat"
           /\ p.prevScan.views >= 100 /\ matureScan(p)
           /\ ~glitchLikes(p) /\ bigJump /\ prevRatioPositive
           /\ dropFactorGe3
        THEN Fire(acc, <<"massive view jump with like-ratio collapse",
                         toFixedPct(Lr.prev, Lr.prevViews),
                         IF currRatioPositive THEN toFixedPct(Lr.curr, Lr.currViews) ELSE 0>>)
        ELSE acc

massiveCommentDrop(acc, p) ==
    LET C == getEffectivePair("comments", p)
        drop == C.prev - C.curr
    IN  IF /\ matureScan(p) /\ ~glitchComments(p)
           /\ jsGe(p.prevScan.comments, 20)
           /\ drop >= 10
        THEN Fire(acc, <<"massive comment drop", drop>>)
        ELSE acc

commentsJumped(acc, p) ==
    LET C2 == getEffectivePair("comments", p)
        viewDelta == Abs(C2.currViews - C2.prevViews)
        commentJump == C2.curr - C2.prev
    IN  IF /\ p.platform # "youtube" /\ matureScan(p) /\ ~glitchComments(p)
           /\ viewDelta <= 30
           /\ commentJump >= 10
        THEN Fire(acc, <<"comments jumped with minimal view change", commentJump, viewDelta>>)
        ELSE acc

\* viewJumpFactor < 5 and commentJumpFactor >= 50, cross-multiplied
susCommentInjection(acc, p) ==
    LET C3 == getEffectivePair("comments", p)
        vDen == Max(C3.prevViews, 1)
        cDen == Max(C3.prev, 1)
    IN  IF /\ matureScan(p) /\ ~glitchComments(p)
           /\ C3.currViews < 5 * vDen
           /\ C3.curr >= 50 * cDen
        THEN Fire(acc, <<"sus comment injection", p.prevScan.views, p.currentScan.views,
                         toFixed1(C3.currViews, vDen), p.prevScan.comments,
                         p.currentScan.comments, toFixed1(C3.curr, cDen)>>)
        ELSE acc

(***************************************************************************)
(* detectBotAlgo: the 6-scan window                                        *)
(***************************************************************************)
\* variant: the window is looked at on series of exactly six scans
windowAppliesSixOnly(p) == p.platform # "youtube" /\ Len(p.allScans) = 6

windowApplies(p) == p.platform # "youtube" /\ Len(p.allScans) >= 6

\* variant: the window begins at the transition's own scan where it can
windowStartAtScan(p) == Max(0, Min(p.scanIndex, Len(p.allScans) - 6))

\* variant: every transition looks at the last six scans
windowStartLastSix(p) == Max(0, Len(p.allScans) - 6)

windowStart(p) == Max(0, Min(p.scanIndex - 3, Len(p.allScans) - 6))

\* allScans.slice(start, start + 6), as the six view counts (views || 0)
windowViews(p) == [k \in 1..6 |-> ScanAt(p.allScans, windowStart(p) + k - 1).views]

isPlateau(a, b) == Abs(a - b) <= 30

\* variant: the drift test between w3 and w5 left out
plateauPatternNoDrift(acc, p) ==
    LET w == windowViews(p) IN
    IF /\ windowApplies(p)
       /\ isPlateau(w[1], w[3])
       /\ w[4] - w[3] >= 500
       /\ isPlateau(w[4], w[5]) /\ isPlateau(w[5], w[6])
    THEN Fire(acc, <<"suspicious plateau -> jump -> plateau pattern",
                     w[1], w[2], w[3], w[4], w[5], w[6]>>)
    ELSE acc

plateauPattern(acc, p) ==
    LET w == windowViews(p)
        beforePlateau == isPlateau(w[1], w[3])
        hasJump == w[4] - w[3] >= 500
        consecutivePlateau == isPlateau(w[4], w[5]) /\ isPlateau(w[5], w[6])
        overallChangeAbs == Abs(w[6] - w[4])
        \* overallChangeRel <= 0.1, with the divisor Math.max(views || 1, 1)
        overallChangeRelOk == 10 * Abs(w[6] - w[4]) <= Max(IF w[4] = 0 THEN 1 ELSE w[4], 1)
    IN  IF /\ windowApplies(p)
           /\ beforePlateau /\ hasJump /\ consecutivePlateau
           /\ (overallChangeAbs <= 30 \/ overallChangeRelOk)
        THEN Fire(acc, <<"suspicious plateau -> jump -> plateau pattern",
                         w[1], w[2], w[3], w[4], w[5], w[6]>>)
        ELSE acc

\* variant: a big jump equal to the small jump is enough
smallPlateauStepEqualJumps(acc, p) ==
    LET w == windowViews(p)
        twoPlateau == isPlateau(w[1], w[2])
        smallJumpDelta == w[3] - w[2]
        bigJumpDelta == w[4] - w[3]
        highPlateau3 == isPlateau(w[4], w[5]) /\ isPlateau(w[5], w[6])
        smallJump == smallJumpDelta >= 300
        bigJump == bigJumpDelta >= 500 /\ bigJumpDelta >= smallJumpDelta
    IN  IF /\ windowApplies(p)
           /\ twoPlateau /\ smallJump /\ bigJump /\ highPlateau3
        THEN Fire(acc, <<"small plateau-step pattern", smallJumpDelta, bigJumpDelta,
                         w[1], w[2], w[3], w[4], w[5], w[6]>>)
        ELSE acc

smallPlateauStep(acc, p) ==
    LET w == windowViews(p)
        twoPlateau == isPlateau(w[1], w[2])
        smallJumpDelta == w[3] - w[2]
        bigJumpDelta == w[4] - w[3]
        highPlateau3 == isPlateau(w[4], w[5]) /\ isPlateau(w[5], w[6])
        smallJump == smallJumpDelta >= 300
        bigJump == bigJumpDelta >= 500 /\ bigJumpDelta > smallJumpDelta
    IN  IF /\ windowApplies(p)
           /\ twoPlateau /\ smallJump /\ bigJump /\ highPlateau3
        THEN Fire(acc, <<"small plateau-step pattern", smallJumpDelta, bigJumpDelta,
                         w[1], w[2], w[3], w[4], w[5], w[6]>>)
        ELSE acc

(***************************************************************************)
(* detectBotAlgo (engine) and the copy embedded in the runner              *)
(***************************************************************************)
pairwiseTail(acc, p) ==
    susCommentInjection(commentsJumped(massiveCommentDrop(likeRatioCollapse(
        logNotesBlock(snapchatUltraLow(zeroLikes(acc, p), p), p), p), p), p), p)

likesSharesSaves(acc, p) ==
    savesAppeared(sharesAppeared(savesAnomalies(sharesAnomalies(
        likesSpiked(viewsGrew(viewsDoubled(acc, p), p), p), p), p), p), p)

windowRules(acc, p) == smallPlateauStep(plateauPattern(acc, p), p)

\* the rules ahead of the window (lines 120-267)
enginePairwise(p) ==
    pairwiseTail(
        tiktokZeroShares(tiktokZeroSaves(
            likesSharesSaves(earlyViewJump(NoFinding, p), p), p), p), p)

detectBotAlgo(p) == windowRules(enginePairwise(p), p)

\* The try block of lines 271-325 runs to its end, or an exception leaves it:
\* at allScans.slice (line 275: an allScans that has a length and no slice), or
\* at a read of a scan's views after the first window rule (lines 304-309: a
\* scan object whose views accessor throws).  Well-typed ScanData arrays give
\* "none" only.
WindowFaults == {"none", "at slice", "after plateau rule"}

\* variant: the catch clause clears what the function had found
windowTryResets(acc, p, fault) ==
    IF ~windowApplies(p) \/ fault = "none"
    THEN windowRules(acc, p)
    ELSE [NoFinding EXCEPT !.notes = Append(acc.notes, <<"Error in plateau detection", fault>>)]

\* try { ... } catch (error) { console.log('Error in plateau detection:', error) }
\* the locals keep what was assigned before the exception
windowTry(acc, p, fault) ==
    IF ~windowApplies(p) \/ fault = "none"
    THEN windowRules(acc, p)
    ELSE LET done == IF fault = "at slice" THEN acc ELSE plateauPattern(acc, p)
         IN  [done EXCEPT !.notes = Append(@, <<"Error in plateau detection", fault>>)]

\* detectBotAlgo when the window of this call meets the fault
detectBotAlgoUnder(p, fault) == windowTry(enginePairwise(p), p, fault)

\* variant: the copy runs the zero-likes and comment rules ahead of the others
runnerDetectBotAlgoTailFirst(p) ==
    windowRules(likesSharesSaves(pairwiseTail(NoFinding, p), p), p)

runnerDetectBotAlgo(p) ==
    windowRules(pairwiseTail(likesSharesSaves(NoFinding, p), p), p)

(***************************************************************************)
(* detectBotDuringScan (src/unnamed/part_000)                              *)
(***************************************************************************)
Platforms == {"facebook", "instagram", "snapchat", "tiktok", "twitter",
              "youtube", "youtube-short"}

\* platform: submission.platform === 'youtube-short' ? 'youtube' : submission.platform
algoPlatform(pl) == IF pl = "youtube-short" THEN "youtube" ELSE pl

Props(allScans, i, pl, logNotes) ==
    [prevScan |-> ScanAt(allScans, i - 1),
     currentScan |-> ScanAt(allScans, i),
     platform |-> pl,
     scanIndex |-> i,
     allScans |-> allScans,
     logNotes |-> logNotes]

\* bottedReason?.trim() is truthy: every fragment carries text
nonBlank(bottedReason) == Len(bottedReason) > 0

\* one appended piece of internalNotes; sep is the leading "\n\n", written when
\* the notes were not empty; the ISO timestamp is left out
noteEntry(notes, r, i) ==
    [sep |-> notes # <<>>,
     shouldReject |-> r.shouldReject,
     bottedReason |-> r.bottedReason,
     from |-> i,
     to |-> i + 1]

\* variant: shouldReject = botDetectionResults.shouldReject (the last transition wins)
loopStepLastWins(st, allScans, pl, i) ==
    LET r == detectBotAlgo(Props(allScans, i, algoPlatform(pl), FALSE))
        notes == IF nonBlank(r.bottedReason)
                 THEN Append(st.internalNotes, noteEntry(st.internalNotes, r, i))
                 ELSE st.internalNotes
    IN  [shouldReject |-> r.shouldReject,
         internalNotes |-> notes,
         results |-> Append(st.results, r)]

\* variant: the new entry is put in front of the notes
loopStepPrepend(st, allScans, pl, i) ==
    LET r == detectBotAlgo(Props(allScans, i, algoPlatform(pl), FALSE))
        notes == IF nonBlank(r.bottedReason)
                 THEN <<noteEntry(st.internalNotes, r, i)>> \o st.internalNotes
                 ELSE st.internalNotes
        reject == IF r.shouldReject THEN TRUE ELSE st.shouldReject
    IN  [shouldReject |-> reject,
         internalNotes |-> notes,
         results |-> Append(st.results, r)]

\* variant: internalNotes = entry (the entry takes the place of the notes)
loopStepOverwrite(st, allScans, pl, i) ==
    LET r == detectBotAlgo(Props(allScans, i, algoPlatform(pl), FALSE))
        notes == IF nonBlank(r.bottedReason)
                 THEN <<noteEntry(st.internalNotes, r, i)>>
                 ELSE st.internalNotes
        reject == IF r.shouldReject THEN TRUE ELSE st.shouldReject
    IN  [shouldReject |-> reject,
         internalNotes |-> notes,
         results |-> Append(st.results, r)]

\* one iteration of the for loop (lines 80-97); st holds the locals
loopStep(st, allScans, pl, i) ==
    LET r == detectBotAlgo(Props(allScans, i, algoPlatform(pl), FALSE))
        notes == IF nonBlank(r.bottedReason)
                 THEN Append(st.internalNotes, noteEntry(st.internalNotes, r, i))
                 ELSE st.internalNotes
        reject == IF r.shouldReject THEN TRUE ELSE st.shouldReject
    IN  [shouldReject |-> reject,
         internalNotes |-> notes,
         results |-> Append(st.results, r)]

\* the loop of lines 79-98 when the engine call of transition k meets the fault f
loopStepUnder(st, allScans, pl, i, fault) ==
    LET r == detectBotAlgoUnder(Props(allScans, i, algoPlatform(pl), FALSE), fault)
        notes == IF nonBlank(r.bottedReason)
                 THEN Append(st.internalNotes, noteEntry(st.internalNotes, r, i))
                 ELSE st.internalNotes
        reject == IF r.shouldReject THEN TRUE ELSE st.shouldReject
    IN  [shouldReject |-> reject,
         internalNotes |-> notes,
         results |-> Append(st.results, r)]

RECURSIVE scanLoopUnder(_, _, _, _, _, _)
scanLoopUnder(st, allScans, pl, i, k, f) ==
    IF i < Len(allScans)
    THEN scanLoopUnder(loopStepUnder(st, allScans, pl, i, IF i = k THEN f ELSE "none"),
                       allScans, pl, i + 1, k, f)
    ELSE st

detectBotDuringScanUnder(allScans, pl, notes, k, f) ==
    IF Len(allScans) < 2
    THEN [returned |-> "undefined", internalNotes |-> notes, results |-> <<>>, updated |-> FALSE]
    ELSE LET st == scanLoopUnder([shouldReject |-> FALSE, internalNotes |-> notes,
                                  results |-> <<>>], allScans, pl, 1, k, f)
         IN  [returned |-> IF st.shouldReject THEN "true" ELSE "false",
              internalNotes |-> st.internalNotes,
              results |-> st.results,
              updated |-> TRUE]

RECURSIVE scanLoop(_, _, _, _)
scanLoop(st, allScans, pl, i) ==
    IF i < Len(allScans)
    THEN scanLoop(loopStep(st, allScans, pl, i), allScans, pl, i + 1)
    ELSE st

\* variant: the early return for fewer than 2 scans removed
detectBotDuringScanNoGuard(allScans, pl, notes) ==
    LET st == scanLoop([shouldReject |-> FALSE, internalNotes |-> notes, results |-> <<>>],
                       allScans, pl, 1)
    IN  [returned |-> IF st.shouldReject THEN "true" ELSE "false",
         internalNotes |-> st.internalNotes,
         results |-> st.results,
         updated |-> TRUE]

detectBotDuringScan(allScans, pl, notes) ==
    IF Len(allScans) < 2
    THEN [returned |-> "undefined", internalNotes |-> notes, results |-> <<>>, updated |-> FALSE]
    ELSE LET st == scanLoop([shouldReject |-> FALSE, internalNotes |-> notes, results |-> <<>>],
                            allScans, pl, 1)
         IN  [returned |-> IF st.shouldReject THEN "true" ELSE "false",
              internalNotes |-> st.internalNotes,
              results |-> st.results,
              updated |-> TRUE]

(***************************************************************************)
(* The runner: inferPlatformFromUrl, parseScans, the run summarizers       *)
(***************************************************************************)
Hosts == {"www.tiktok.com", "www.instagram.com", "www.youtube.com", "youtu.be",
          "www.snapchat.com", "x.com"}

inferPlatformFromUrl(host) ==
    CASE host = "www.snapchat.com" -> "snapchat"
      [] host = "www.tiktok.com" -> "tiktok"
      [] host = "www.instagram.com" -> "instagram"
      [] host \in {"www.youtube.com", "youtu.be"} -> "youtube"
      [] OTHER -> "unknown"

\* a table cell is the number written in it, or one of the texts
\* isMissingCellContent knows ("", "null", "n/a", "-", ...), or other text
MissingCell == -1
GarbageCell == -2

toInt(cell) == IF cell >= 0 THEN cell ELSE 0
isMissingCellContent(cell) == cell = MissingCell

\* the rows parseScans reads for the platform
tableMetrics(pl) ==
    IF pl = "snapchat" THEN {"views", "likes", "comments", "shares"}
    ELSE IF pl \in {"youtube", "instagram"} THEN {"views", "likes", "comments"}
    ELSE {"views", "likes", "comments", "saves", "shares"}

\* the record built for one column by the forEach of lines 834-849
parseColumn(col, pl) ==
    LET cell(m) == IF m \in tableMetrics(pl) THEN toInt(col[m]) ELSE 0 IN
    [views |-> cell("views"), likes |-> cell("likes"), saves |-> cell("saves"),
     shares |-> cell("shares"), comments |-> cell("comments"),
     missing |-> \E m \in tableMetrics(pl) : isMissingCellContent(col[m])]

Reverse(seq) == [k \in 1..Len(seq) |-> seq[Len(seq) + 1 - k]]

\* Object.values(scan).every(v => v === 0): a set missing flag is a value `true`
allZero(scan) ==
    /\ ~scan.missing
    /\ scan.views = 0 /\ scan.likes = 0 /\ scan.saves = 0
    /\ scan.shares = 0 /\ scan.comments = 0

RECURSIVE dropTrailingPhantoms(_)
dropTrailingPhantoms(out) ==
    IF Len(out) > 0 /\ allZero(out[Len(out)])
    THEN dropTrailingPhantoms(SubSeq(out, 1, Len(out) - 1))
    ELSE out

parseScans(table, pl) ==
    dropTrailingPhantoms(Reverse([k \in 1..Len(table) |-> parseColumn(table[k], pl)]))

\* a line of `flagged`: "Scan i: Anomalie : r1; r2" or a summary "Scans a-b: ... across N scans"
ScanLine(i, reasons) ==
    [kind |-> "scan", index |-> i, reasons |-> reasons, from |-> 0, to |-> 0, count |-> 0]
SummaryLine(what, a, b, n) ==
    [kind |-> what, index |-> 0, reasons |-> <<>>, from |-> a, to |-> b, count |-> n]
ErrorLine(message) ==
    [kind |-> "Error: " \o message, index |-> 0, reasons |-> <<>>, from |-> 0, to |-> 0, count |-> 0]

\* variant: a run that reaches the end of the series is not closed
RECURSIVE runLoopNoTrailing(_, _, _, _, _, _)
runLoopNoTrailing(flags, what, minRun, i, start, msgs) ==
    IF i < Len(flags)
    THEN IF flags[i + 1]
         THEN runLoopNoTrailing(flags, what, minRun, i + 1, IF start = -1 THEN i ELSE start, msgs)
         ELSE IF start # -1
              THEN runLoopNoTrailing(flags, what, minRun, i + 1, -1,
                                     IF i - start >= minRun
                                     THEN Append(msgs, SummaryLine(what, start + 1, i, i - start))
                                     ELSE msgs)
              ELSE runLoopNoTrailing(flags, what, minRun, i + 1, start, msgs)
    ELSE msgs

\* the loop shared by the four summarizers, from position i (0-based) on;
\* flags[k] says whether scan k meets the condition, start = -1 stands for null
RECURSIVE runLoop(_, _, _, _, _, _)
runLoop(flags, what, minRun, i, start, msgs) ==
    IF i < Len(flags)
    THEN IF flags[i + 1]
         THEN runLoop(flags, what, minRun, i + 1, IF start = -1 THEN i ELSE start, msgs)
         ELSE IF start # -1
              THEN runLoop(flags, what, minRun, i + 1, -1,
                           IF i - start >= minRun
                           THEN Append(msgs, SummaryLine(what, start + 1, i, i - start))
                           ELSE msgs)
              ELSE runLoop(flags, what, minRun, i + 1, start, msgs)
    ELSE IF start # -1 /\ Len(flags) - start >= minRun
         THEN Append(msgs, SummaryLine(what, start + 1, Len(flags), Len(flags) - start))
         ELSE msgs

summarizeZeroLikes(allScans, pl, minViews, minRun) ==
    runLoop([k \in 1..Len(allScans) |-> allScans[k].views > minViews /\ allScans[k].likes = 0],
            "zero likes across scans", minRun, 0, -1, <<>>)

summarizeUltraLowEngagement(allScans, pl, minViews, minRun) ==
    IF pl # "snapchat" THEN <<>>
    ELSE runLoop([k \in 1..Len(allScans) |->
                     /\ allScans[k].views > minViews
                     /\ allScans[k].comments = 0
                     /\ allScans[k].shares <= 1],
                 "ultra-low engagement across scans", minRun, 0, -1, <<>>)

summarizeZeroComments(allScans, pl, minViews, minRun) ==
    runLoop([k \in 1..Len(allScans) |-> allScans[k].views > minViews /\ allScans[k].comments = 0],
            "zero comments across scans", minRun, 0, -1, <<>>)

\* (s.comments / s.views) < 0.01
summarizeLowCommentRatio(allScans, pl, minViews, minRun) ==
    runLoop([k \in 1..Len(allScans) |->
                /\ allScans[k].views > minViews
                /\ 100 * allScans[k].comments < allScans[k].views],
            "low comment ratio across scans", minRun, 0, -1, <<>>)

(***************************************************************************)
(* analyzeUrl                                                              *)
(***************************************************************************)
validScansOf(allScans) == SelectSeq(allScans, LAMBDA sc : ~sc.missing)

\* the pairwise loop of lines 895-919, from iteration i on.  bottedReason
\* split at "\n", trimmed and filtered is the sequence of its fragments.
RECURSIVE pairwiseLoop(_, _, _, _, _)
pairwiseLoop(st, valid, pl, logNotes, i) ==
    IF i < Len(valid)
    THEN LET r == runnerDetectBotAlgo(Props(valid, i, pl, logNotes))
             reasons == r.bottedReason
         IN  pairwiseLoop(
                 [flagged |-> IF r.shouldReject /\ Len(reasons) > 0
                              THEN Append(st.flagged, ScanLine(i, reasons))
                              ELSE st.flagged,
                  perScan |-> Append(st.perScan, [index |-> i, reasons |-> reasons])],
                 valid, pl, logNotes, i + 1)
    ELSE st

pairwiseChecks(valid, pl, logNotes) ==
    pairwiseLoop([flagged |-> <<>>, perScan |-> <<>>], valid, pl, logNotes, 1)

\* /\bzero likes\b/.test(line), /\bultra-low engagement\b/.test(line)
mentionsZeroLikes(line) ==
    \/ line.kind = "zero likes across scans"
    \/ \E k \in 1..Len(line.reasons) : line.reasons[k][1] = "zero likes"
mentionsUltraLow(line) == line.kind = "ultra-low engagement across scans"

\* zeroLikesStep without the filter of line 925: the summaries are appended to
\* the per-scan lines they stand for
zeroLikesStepNoFilter(flagged, valid, pl) ==
    LET zeroLikeSummaries == summarizeZeroLikes(valid, pl, 1000, 5) IN
    IF pl \in {"tiktok", "instagram", "youtube"} /\ Len(zeroLikeSummaries) > 0
    THEN flagged \o zeroLikeSummaries
    ELSE flagged

zeroLikesStep(flagged, valid, pl) ==
    LET zeroLikeSummaries == summarizeZeroLikes(valid, pl, 1000, 5) IN
    IF pl \in {"tiktok", "instagram", "youtube"} /\ Len(zeroLikeSummaries) > 0
    THEN SelectSeq(flagged, LAMBDA line : ~mentionsZeroLikes(line)) \o zeroLikeSummaries
    ELSE flagged

ultraLowStep(flagged, valid, pl) ==
    LET ultraLowEngagementSummaries == summarizeUltraLowEngagement(valid, pl, 20000, 3) IN
    IF pl = "snapchat" /\ Len(ultraLowEngagementSummaries) > 0
    THEN SelectSeq(flagged, LAMBDA line : ~mentionsUltraLow(line)) \o ultraLowEngagementSummaries
    ELSE flagged

\* threw is the message of the Error thrown, "" when the function returns
analyzeUrl(host, table, httpOk, logNotes) ==
    LET pl == inferPlatformFromUrl(host)
        parsed == parseScans(table, pl)
        valid == validScansOf(parsed)
        pairs == pairwiseChecks(valid, pl, logNotes)
        none == [threw |-> "", platform |-> pl, scanCount |-> 0, flagged |-> <<>>,
                 perScan |-> <<>>, zeroCommentSummaries |-> <<>>,
                 lowCommentRatioSummaries |-> <<>>]
    IN  IF ~httpOk THEN [none EXCEPT !.threw = "HTTP status"]
        ELSE IF Len(valid) = 0 THEN [none EXCEPT !.threw = "No scans found."]
        ELSE [threw |-> "",
              platform |-> pl,
              scanCount |-> Len(parsed),
              flagged |-> ultraLowStep(zeroLikesStep(pairs.flagged, valid, pl), valid, pl),
              perScan |-> pairs.perScan,
              zeroCommentSummaries |->
                  IF pl \in {"tiktok", "instagram", "youtube"}
                  THEN summarizeZeroComments(valid, pl, 5000, 3) ELSE <<>>,
              lowCommentRatioSummaries |->
                  IF pl \in {"tiktok", "instagram", "youtube"}
                  THEN summarizeLowCommentRatio(valid, pl, 5000, 3) ELSE <<>>]

\* runOnce prints the condensed line; an Error reaches main's console.error
runOnce(host, table, httpOk) ==
    LET r == analyzeUrl(host, table, httpOk, TRUE) IN
    IF r.threw # "" THEN [by |-> "runOnce", mark |-> "console.error", flagged |-> <<ErrorLine(r.threw)>>]
    ELSE IF Len(r.flagged) > 0 THEN [by |-> "runOnce", mark |-> "flag", flagged |-> r.flagged]
    ELSE [by |-> "runOnce", mark |-> "No anomalies detected", flagged |-> <<>>]

\* the catch of runBatch: an Error becomes the one flagged line "Error: ..."
caughtFlagged(r) == IF r.threw # "" THEN <<ErrorLine(r.threw)>> ELSE r.flagged

printBatch(flagged, format) ==
    IF format = "json" THEN [by |-> "runBatch", mark |-> "json", flagged |-> flagged]
    ELSE IF Len(flagged) > 0 THEN [by |-> "runBatch", mark |-> "flag", flagged |-> flagged]
    ELSE [by |-> "runBatch", mark |-> "No anomalies detected", flagged |-> <<>>]

\* runBatch on a list holding the one URL
runBatch(host, table, httpOk, format) ==
    printBatch(caughtFlagged(analyzeUrl(host, table, httpOk, FALSE)), format)

(***************************************************************************)
(* The stored series: families of scans the properties range over             *)
(***************************************************************************)
MaxPairScans == 3
MaxEarlyScans == 6
MaxWindowScans == 6
MaxRuns == 2

Scan(v, l, c, sh, sv) == [views |-> v, likes |-> l, comments |-> c, shares |-> sh, saves |-> sv]

\* a post whose other metrics follow its views
Organic(v) == Scan(v, v \div 10, v \div 100, v \div 200, v \div 200)

EarlyViews == {0, 1, 20000}
WindowViews == {0, 540, 570, 600}

EarlyScans == {Organic(v) : v \in EarlyViews}
WindowScans == {Organic(v) : v \in WindowViews}
PairScans ==
    { Scan(2000, 100, 50, 1, 1),
      Scan(2010, 200, 100, 40, 40),
      Scan(2000, 0, 1, 0, Undef),
      Scan(2000, Undef, 0, Undef, 0),
      Scan(30000, 0, 0, 0, 0),
      Scan(30000, 100, 30, 1, 1),
      Scan(30000, 3000, 300, 150, 150),
      Scan(6000, 300, 150, 3, 3) }

NothingPrinted == [by |-> "", mark |-> "", flagged |-> <<>>]

Init ==
    /\ platform \in Platforms
    /\ scans = <<>>
    /\ internalNotes = <<>>
    /\ verdict = "not called"
    /\ trail = <<>>
    /\ notesWrites = 0
    /\ url = "www.tiktok.com"
    /\ html = <<>>
    /\ printed = NothingPrinted

\* a scan of the submission is stored (before the detector first runs)
StoreScan(D, maxLen) ==
    /\ verdict = "not called"
    /\ Len(scans) < maxLen
    /\ \E s \in D : scans' = Append(scans, s)
    /\ UNCHANGED <<platform, internalNotes, verdict, trail, notesWrites>>
    /\ UNCHANGED reportVars

StorePairScan == StoreScan(PairScans, MaxPairScans)
StoreEarlyScan == StoreScan(EarlyScans, MaxEarlyScans)
StoreWindowScan == StoreScan(WindowScans, MaxWindowScans)

DetectBotDuringScanUpTo(maxRuns) ==
    /\ notesWrites < maxRuns
    /\ verdict # "undefined"
    /\ LET out == detectBotDuringScan(scans, platform, internalNotes) IN
        /\ verdict' = out.returned
        /\ trail' = out.results
        /\ internalNotes' = out.internalNotes
        /\ notesWrites' = IF out.updated THEN notesWrites + 1 ELSE notesWrites
    /\ UNCHANGED <<platform, scans>>
    /\ UNCHANGED reportVars

DetectBotDuringScan == DetectBotDuringScanUpTo(MaxRuns)
DetectBotDuringScanOnce == DetectBotDuringScanUpTo(1)

\* the detector on series of full scans
Next ==
    \/ StorePairScan
    \/ DetectBotDuringScan

Spec == Init /\ [][Next]_vars

\* the detector on series that differ in their view counts only: early jumps
NextEarly ==
    \/ StoreEarlyScan
    \/ DetectBotDuringScanOnce

SpecEarly == Init /\ [][NextEarly]_vars

\* the same, with the view counts of plateaus and jumps
NextWindow ==
    \/ StoreWindowScan
    \/ DetectBotDuringScanOnce

InitWindow == Init /\ platform \in {"twitter", "snapchat", "youtube"}

SpecWindow == InitWindow /\ [][NextWindow]_vars

\* the same, with the metrics at the thresholds of single rules: views at
\* 4999 and 5000, likes at 1.2 times the previous reading and one below it,
\* like ratios a third of the previous ratio, single zero readings
MaxThresholdScans == 3

ThresholdScans ==
    { Scan(1000, 150, 10, 5, 5),
      Scan(2001, 180, 10, 5, 5),
      Scan(2001, 179, 10, 5, 5),
      Scan(1000, 0, 10, 5, 5),
      Scan(5000, 0, 10, 5, 0),
      Scan(4999, 0, 10, 5, 0),
      Scan(8004, 240, 10, 5, 5),
      Scan(6000, 300, 10, 5, 5) }

StoreThresholdScan == StoreScan(ThresholdScans, MaxThresholdScans)

NextThreshold ==
    \/ StoreThresholdScan
    \/ DetectBotDuringScanOnce

InitThreshold == Init /\ platform \in {"tiktok", "twitter", "youtube", "snapchat"}

SpecThreshold == InitThreshold /\ [][NextThreshold]_vars

\* the detector on series of plateaus and steps, one of whose transitions may
\* meet an exception inside the window's try block
MaxFaultScans == 6

\* three levels of views; the comments of the middle one fall on the way up
FaultScans == {Organic(0), Scan(300, 30, 30, 1, 1), Organic(900)}

StoreFaultScan == StoreScan(FaultScans, MaxFaultScans)

\* what the caller and the database see of a finished call
Returned(out) ==
    /\ verdict' = out.returned
    /\ trail' = out.results
    /\ internalNotes' = out.internalNotes
    /\ notesWrites' = IF out.updated THEN notesWrites + 1 ELSE notesWrites

DetectBotDuringScanWindowFault ==
    /\ notesWrites < 1
    /\ verdict # "undefined"
    /\ \E k \in 1..(MaxFaultScans - 1), f \in WindowFaults :
           Returned(detectBotDuringScanUnder(scans, platform, internalNotes, k, f))
    /\ UNCHANGED <<platform, scans>>
    /\ UNCHANGED reportVars

NextFault ==
    \/ StoreFaultScan
    \/ DetectBotDuringScanWindowFault

InitFault == Init /\ platform \in {"twitter", "youtube"}

SpecFault == InitFault /\ [][NextFault]_vars

\* the detector on series longer than one window, of three levels of views
MaxSlideScans == 7

SlideScans == {Organic(0), Organic(300), Organic(900)}

StoreSlideScan == StoreScan(SlideScans, MaxSlideScans)

NextSlide ==
    \/ StoreSlideScan
    \/ DetectBotDuringScanOnce

InitSlide == Init /\ platform \in {"twitter", "youtube"}

SpecSlide == InitSlide /\ [][NextSlide]_vars

\* the detector on series of one window, with the view counts of steps: 30
\* apart, 300 apart, 500 apart
MaxStepScans == 6

StepViews == {0, 30, 300, 800, 1300}
StepScans == {Organic(v) : v \in StepViews}

StoreStepScan == StoreScan(StepScans, MaxStepScans)

NextStep ==
    \/ StoreStepScan
    \/ DetectBotDuringScanOnce

InitStep == Init /\ platform = "twitter"

SpecStep == InitStep /\ [][NextStep]_vars

\* the detector on series that grow: a post at 540 views, the post at 1300
\* views, and the post at 1300 views with its like count read as zero
MaxGrowScans == 7

GrowScans == {Organic(540), Organic(1300), Scan(1300, 0, 13, 6, 6)}

StoreGrowScan == StoreScan(GrowScans, MaxGrowScans)

NextGrow ==
    \/ StoreGrowScan
    \/ DetectBotDuringScanOnce

InitGrow == Init /\ platform \in {"twitter", "youtube"}

SpecGrow == InitGrow /\ [][NextGrow]_vars

\* the detector called again and again on a submission whose scans keep arriving
MaxNoteScans == 4

StoreArrivingScan ==
    /\ Len(scans) < MaxNoteScans
    /\ \E s \in GrowScans : scans' = Append(scans, s)
    /\ UNCHANGED <<platform, internalNotes, verdict, trail, notesWrites>>
    /\ UNCHANGED reportVars

DetectBotDuringScanAgain ==
    /\ notesWrites < MaxRuns
    /\ LET out == detectBotDuringScan(scans, platform, internalNotes) IN
        /\ verdict' = out.returned
        /\ trail' = out.results
        /\ internalNotes' = out.internalNotes
        /\ notesWrites' = IF out.updated THEN notesWrites + 1 ELSE notesWrites
    /\ UNCHANGED <<platform, scans>>
    /\ UNCHANGED reportVars

NextNotes ==
    \/ StoreArrivingScan
    \/ DetectBotDuringScanAgain

SpecNotes == InitGrow /\ [][NextNotes]_vars

(***************************************************************************)
(* The runner on a fetched page                                            *)
(***************************************************************************)
MaxReportColumns == 3
MaxSummaryColumns == 6

Cells(v, l, c, sv, sh) == [views |-> v, likes |-> l, comments |-> c, saves |-> sv, shares |-> sh]

ReportColumns ==
    { Cells(2000, 100, 50, 5, 5),
      Cells(25000, 0, 0, 0, 0),
      Cells(25000, 2500, 250, 60, 60),
      Cells(0, 0, 0, 0, 0),
      Cells(2000, MissingCell, 50, 5, 5),
      Cells(2000, GarbageCell, 50, 5, 5) }

SummaryColumns ==
    { Cells(2000, 0, 20, 5, 5),
      Cells(2000, 100, 20, 5, 5),
      Cells(1000, 0, 10, 5, 5),
      Cells(2000, MissingCell, 20, 5, 5) }

InitReport ==
    /\ platform = "tiktok"
    /\ scans = <<>>
    /\ internalNotes = <<>>
    /\ verdict = "not called"
    /\ trail = <<>>
    /\ notesWrites = 0
    /\ url \in Hosts
    /\ html = <<>>
    /\ printed = NothingPrinted

\* the page gains a column (before the runner fetches it); the newest scan is
\* the first column
AddColumn(D, maxLen) ==
    /\ printed = NothingPrinted
    /\ Len(html) < maxLen
    /\ \E col \in D : html' = <<col>> \o html
    /\ UNCHANGED <<url, printed>>
    /\ UNCHANGED scanVars

AddReportColumn == AddColumn(ReportColumns, MaxReportColumns)
AddSummaryColumn == AddColumn(SummaryColumns, MaxSummaryColumns)

RunOnce ==
    /\ printed = NothingPrinted
    /\ \E httpOk \in BOOLEAN : printed' = runOnce(url, html, httpOk)
    /\ UNCHANGED <<url, html>>
    /\ UNCHANGED scanVars

RunOnceFetched ==
    /\ printed = NothingPrinted
    /\ printed' = runOnce(url, html, TRUE)
    /\ UNCHANGED <<url, html>>
    /\ UNCHANGED scanVars

RunBatch ==
    /\ printed = NothingPrinted
    /\ \E httpOk \in BOOLEAN, format \in {"text", "json"} :
           printed' = runBatch(url, html, httpOk, format)
    /\ UNCHANGED <<url, html>>
    /\ UNCHANGED scanVars

NextReport ==
    \/ AddReportColumn
    \/ RunOnce
    \/ RunBatch

SpecReport == InitReport /\ [][NextReport]_vars

\* pages of up to MaxSummaryColumns scans that differ in likes and views
NextSummary ==
    \/ AddSummaryColumn
    \/ RunOnceFetched

InitSummary == InitReport /\ url \in {"www.tiktok.com", "youtu.be", "www.snapchat.com"}

SpecSummary == InitSummary /\ [][NextSummary]_vars

\* pages of up to MaxRunColumns scans that meet all, some or none of the
\* conditions the four summarizers look for
MaxRunColumns == 7

RunColumns ==
    { Cells(25000, 0, 0, 5, 1),
      Cells(25000, 100, 250, 5, 5),
      Cells(6000, 0, 30, 5, 5) }

AddRunColumn == AddColumn(RunColumns, MaxRunColumns)

NextRuns ==
    \/ AddRunColumn
    \/ RunOnceFetched

InitRuns == InitReport /\ url \in {"www.tiktok.com", "www.snapchat.com"}

SpecRuns == InitRuns /\ [][NextRuns]_vars

\* pages whose columns hold zeros, placeholders and other text
MaxParseColumns == 4

ParseColumns ==
    { Cells(2000, 100, 50, 5, 5),
      Cells(0, 0, 0, 0, 0),
      Cells(0, MissingCell, 0, 0, 0),
      Cells(0, 0, 0, 0, MissingCell),
      Cells(2000, GarbageCell, 50, 5, 5) }

AddParseColumn == AddColumn(ParseColumns, MaxParseColumns)

NextParse ==
    \/ AddParseColumn
    \/ RunOnceFetched

SpecParse == InitReport /\ [][NextParse]_vars

(***************************************************************************)
(* Properties of the during-scan path                                      *)
(***************************************************************************)
\* the response detectBotAlgo gives for transition i of the stored series
AlgoAt(i) == detectBotAlgo(Props(scans, i, algoPlatform(platform), FALSE))
Transitions == 1..(Len(scans) - 1)
Emits(r, msg) == \E k \in 1..Len(r.bottedReason) : r.bottedReason[k][1] = msg
Evaluated == verdict \in {"true", "false"}

\* C1: for a series of n >= 2 scans detectBotDuringScan returns a boolean, and it
\* returns true exactly when detectBotAlgo rejected at least one transition
\* i in 1..n-1 (called with scans[i-1], scans[i], scanIndex i and the whole series)
C1_VerdictIsSomeTransitionRejected ==
    /\ (verdict # "not called" /\ Len(scans) >= 2) => Evaluated
    /\ Evaluated =>
         ((verdict = "true") <=> (\E i \in Transitions : AlgoAt(i).shouldReject))

C1_Witness ==
    /\ verdict = "true"
    /\ Len(scans) = 3
    /\ AlgoAt(1).shouldReject
    /\ ~AlgoAt(2).shouldReject

\* C2: when likes[i] is 0 or undefined between two positive likes readings, the
\* call for transition i emits neither "zero likes" nor "views grew but <2
\* likes change", whatever the views are
LikesDropoutAt(i) ==
    /\ i + 1 < Len(scans)
    /\ isZeroish(ScanAt(scans, i).likes)
    /\ jsGt(ScanAt(scans, i - 1).likes, 0)
    /\ jsGt(ScanAt(scans, i + 1).likes, 0)

C2_GlitchSuppressesLikesRules ==
    \A i \in 1..Len(trail) :
        LikesDropoutAt(i) =>
            /\ ~Emits(trail[i], "zero likes")
            /\ ~Emits(trail[i], "views grew but <2 likes change")

\* the dropout scan has 28000 more views than the scan before it and the likes
\* on both sides are equal: without the guard "views grew" would fire
C2_Witness ==
    /\ platform = "tiktok"
    /\ Len(trail) = 2
    /\ LikesDropoutAt(1)
    /\ ScanAt(scans, 2).views - ScanAt(scans, 0).views >= 1000
    /\ ScanAt(scans, 2).likes - ScanAt(scans, 0).likes < 2

\* C3: "early 20k+ view jump" is emitted at transition i exactly when
\* i - (number of leading zero-view scans) < 4 and views[i] - views[i-1] >= 20000,
\* and then the transition rejects
LeadingZeroScans ==
    Cardinality({k \in 1..Len(scans) : \A j \in 1..k : scans[j].views = 0})

WindowOf(i) ==
    LET s == Max(0, Min(i - 3, Len(scans) - 6))
    IN  [k \in 0..5 |-> scans[s + k + 1].views]

PlateauJumpPlateau(w) ==
    /\ Abs(w[0] - w[2]) <= 30
    /\ w[3] - w[2] >= 500
    /\ Abs(w[3] - w[4]) <= 30
    /\ Abs(w[4] - w[5]) <= 30
    /\ \/ Abs(w[5] - w[3]) <= 30
       \/ 10 * Abs(w[5] - w[3]) <= Max(w[3], 1)

C4_PlateauJumpPlateau ==
    \A i \in 1..Len(trail) :
        (algoPlatform(platform) # "youtube" /\ Len(scans) >= 6) =>
            /\ Emits(trail[i], "suspicious plateau -> jump -> plateau pattern")
                 <=> PlateauJumpPlateau(WindowOf(i))
            /\ Emits(trail[i], "suspicious plateau -> jump -> plateau pattern")
                 => trail[i].shouldReject

\* fires through the 10% clause alone (drift 60 from w3 = 600), with w1 off the plateau
C4_Witness ==
    /\ platform = "twitter"
    /\ Len(trail) = 5
    /\ Emits(trail[1], "suspicious plateau -> jump -> plateau pattern")
    /\ Abs(WindowOf(1)[5] - WindowOf(1)[3]) > 30
    /\ Abs(WindowOf(1)[1] - WindowOf(1)[0]) > 30

\* C5: with fewer than 2 stored scans detectBotDuringScan returns no boolean,
\* calls detectBotAlgo not once and does not write internalNotes
C5_InsufficientDataNoVerdict ==
    (verdict # "not called" /\ Len(scans) < 2) =>
        /\ verdict = "undefined"
        /\ trail = <<>>
        /\ notesWrites = 0
        /\ internalNotes = <<>>

C5_Witness == verdict = "undefined" /\ Len(scans) = 1

\* C8: whenever detectBotAlgo returns a non-empty bottedReason it returns
\* shouldReject = true
C8_ReasonImpliesReject ==
    \A i \in 1..Len(trail) :
        trail[i].bottedReason # <<>> => trail[i].shouldReject

C8_Witness ==
    \E i \in 1..Len(trail) :
        /\ Len(trail[i].bottedReason) = 1
        /\ Emits(trail[i], "zero likes")

\* C9: after detectBotDuringScan on n >= 2 scans internalNotes holds, per run,
\* exactly one entry for each transition whose bottedReason is non-blank, in
\* increasing transition order, each with the whole bottedReason of its
\* transition and the label "between scans i and i+1"; inside an entry the
\* reasons stand in the order in which detectBotAlgo evaluates its rules
RuleRank(msg) ==
    CASE msg = "early 20k+ view jump within first 5 scans" -> 1
      [] msg = "views doubled quickly without corresponding jump in likes" -> 2
      [] msg = "views grew but <2 likes change" -> 3
      [] msg = "likes spiked (>=1.5x) without corresponding jump in views" -> 4
      [] msg = "shares appeared (0->n) without corresponding jump in views" -> 5
      [] msg = "shares grew quickly without corresponding jump in views" -> 5
      [] msg = "saves appeared (0->n) without corresponding jump in views" -> 6
      [] msg = "saves grew quickly without corresponding jump in views" -> 6
      [] msg = "shares appeared (0->X) without corresponding jump in views" -> 7
      [] msg = "saves appeared (0->X) without corresponding jump in views" -> 8
      [] msg = "zero saves at 5k+ views (TikTok)" -> 9
      [] msg = "zero shares at 10k+ views (TikTok)" -> 10
      [] msg = "zero likes" -> 11
      [] msg = "massive view jump with like-ratio collapse" -> 12
      [] msg = "massive comment drop" -> 13
      [] msg = "comments jumped with minimal view change" -> 14
      [] msg = "sus comment injection" -> 15
      [] msg = "suspicious plateau -> jump -> plateau pattern" -> 16
      [] msg = "small plateau-step pattern" -> 17
      [] OTHER -> 0

InRuleOrder(reasons) ==
    \A a, b \in 1..Len(reasons) :
        a < b => (RuleRank(reasons[a][1]) > 0 /\ RuleRank(reasons[a][1]) <= RuleRank(reasons[b][1]))

NotedTransitions == {i \in Transitions : nonBlank(AlgoAt(i).bottedReason)}

C9_OrderedCompleteTrail ==
    notesWrites >= 1 =>
        LET m == Cardinality(NotedTransitions) IN
        /\ Len(internalNotes) = notesWrites * m
        /\ \A k \in 1..Len(internalNotes) :
              LET e == internalNotes[k] IN
              /\ e.from \in NotedTransitions
              /\ e.to = e.from + 1
              /\ e.bottedReason = AlgoAt(e.from).bottedReason
              /\ e.shouldReject = AlgoAt(e.from).shouldReject
              /\ e.sep = (k > 1)
              /\ InRuleOrder(e.bottedReason)
              /\ (k < Len(internalNotes) /\ k % m # 0) => e.from < internalNotes[k + 1].from

C9_Witness ==
    /\ notesWrites = 2
    /\ Len(internalNotes) = 4
    /\ Len(internalNotes[1].bottedReason) >= 3
    /\ Emits(internalNotes[2], "zero likes")

(***************************************************************************)
(* Properties of the runner                                                *)
(***************************************************************************)
PagePlatform == inferPlatformFromUrl(url)
PageValid == validScansOf(parseScans(html, PagePlatform))
PairwiseFlagged == pairwiseChecks(PageValid, PagePlatform, FALSE).flagged
Ran == printed # NothingPrinted
Fetched == Ran /\ \A k \in 1..Len(printed.flagged) : printed.flagged[k].kind # "Error: HTTP status"
ZeroLike(sc) == sc.views > 1000 /\ sc.likes = 0

\* C6: a page with 0 or 1 valid scans never ends in the outcome of a page that
\* was evaluated and found clean: the runner neither prints "No anomalies
\* detected" for it nor reports it with an empty flagged list
C6_InsufficientDataDistinct ==
    (Fetched /\ Len(PageValid) <= 1) =>
        /\ printed.mark # "No anomalies detected"
        /\ printed.flagged # <<>>

\* a page with one valid scan, fetched and reported as clean
C6_Witness ==
    /\ Fetched /\ Len(PageValid) = 1
    /\ printed.by = "runOnce" /\ printed.mark = "No anomalies detected"

\* C7: on tiktok, instagram and youtube, when the valid scans hold a run of
\* five scans with views > 1000 and likes = 0 that is followed by a scan with
\* likes > 0, flagged holds exactly one summary line of that run, from its
\* first to its fifth scan with count 5, and no per-scan line that mentions
\* "zero likes"
RunOfFiveAt(a) ==
    /\ a + 5 <= Len(PageValid)
    /\ a > 1 => ~ZeroLike(PageValid[a - 1])
    /\ \A k \in a..(a + 4) : ZeroLike(PageValid[k])
    /\ PageValid[a + 5].likes > 0

C7_RunOfFiveSummarizedOnce ==
    (Fetched /\ PagePlatform \in {"tiktok", "instagram", "youtube"}) =>
        \A a \in 1..Len(PageValid) :
            RunOfFiveAt(a) =>
                /\ Cardinality({k \in 1..Len(printed.flagged) :
                        printed.flagged[k] =
                            SummaryLine("zero likes across scans", a, a + 4, 5)}) = 1
                /\ Cardinality({k \in 1..Len(printed.flagged) :
                        /\ printed.flagged[k].kind = "zero likes across scans"
                        /\ printed.flagged[k].from <= a + 4
                        /\ printed.flagged[k].to >= a}) = 1
                /\ \A k \in 1..Len(printed.flagged) :
                        printed.flagged[k].kind = "scan" => ~mentionsZeroLikes(printed.flagged[k])

C7_Witness ==
    /\ Fetched /\ PagePlatform = "tiktok"
    /\ RunOfFiveAt(1)
    /\ \E k \in 1..Len(PairwiseFlagged) : mentionsZeroLikes(PairwiseFlagged[k])
    /\ \E k \in 1..Len(printed.flagged) : printed.flagged[k].kind = "zero likes across scans"

\* C10: for every page and platform the URL is flagged after the zero-likes
\* and ultra-low-engagement summarization steps exactly when it was flagged
\* before them
C10_SummarizerKeepsDecision ==
    (Fetched /\ Len(PageValid) > 0) =>
        (Len(printed.flagged) > 0 <=> Len(PairwiseFlagged) > 0)

\* a snapchat page no transition of which was flagged, reported with a summary
C10_Witness ==
    /\ Fetched /\ PagePlatform = "snapchat"
    /\ PairwiseFlagged = <<>>
    /\ printed.mark = "flag"
    /\ printed.flagged = <<SummaryLine("ultra-low engagement across scans", 1, 3, 3)>>

(***************************************************************************)
(* Properties of single rules, during-scan path                            *)
(***************************************************************************)
\* what the rules other than the early jump and the snapchat ultra-low rule
\* find on transition i
OtherRulesAt(i) ==
    LET p == Props(scans, i, algoPlatform(platform), FALSE) IN
    windowRules(
        susCommentInjection(commentsJumped(massiveCommentDrop(likeRatioCollapse(
            zeroLikes(tiktokZeroShares(tiktokZeroSaves(
                likesSharesSaves(NoFinding, p), p), p), p), p), p), p), p), p)

EarlyJumpAt(i) ==
    /\ i - LeadingZeroScans < 4
    /\ ScanAt(scans, i).views - ScanAt(scans, i - 1).views >= 20000

UltraLowAt(i) ==
    /\ algoPlatform(platform) = "snapchat"
    /\ ScanAt(scans, i).views > 20000
    /\ ScanAt(scans, i).comments = 0
    /\ ScanAt(scans, i).shares \in {0, 1}

NotesOf(i) == {k \in 1..Len(internalNotes) : internalNotes[k].from = i}

\* C12 as stated: when the snapchat ultra-low rule or the early 20k rule is the
\* only rule firing on a transition, the transition rejects with an empty
\* bottedReason and internalNotes gets no entry for it
C12_RejectWithoutReason ==
    \A i \in 1..Len(trail) :
        ((EarlyJumpAt(i) \/ UltraLowAt(i)) /\ ~OtherRulesAt(i).shouldReject) =>
            /\ trail[i].shouldReject
            /\ trail[i].bottedReason = <<>>
            /\ NotesOf(i) = {}

\* C12 amended: only the snapchat ultra-low rule rejects without a reason (no
\* internalNotes entry for the transition); the early 20k rule, firing alone,
\* rejects with its reason, and each run writes one entry with that reason
C12_OnlyUltraLowRejectsSilently ==
    \A i \in 1..Len(trail) :
        /\ (UltraLowAt(i) /\ ~EarlyJumpAt(i) /\ ~OtherRulesAt(i).shouldReject) =>
              /\ trail[i].shouldReject
              /\ trail[i].bottedReason = <<>>
              /\ NotesOf(i) = {}
        /\ (EarlyJumpAt(i) /\ ~OtherRulesAt(i).shouldReject) =>
              /\ trail[i].shouldReject
              /\ trail[i].bottedReason = <<(<<"early 20k+ view jump within first 5 scans">>)>>
              /\ Cardinality(NotesOf(i)) = notesWrites
              /\ \A k \in NotesOf(i) : internalNotes[k].bottedReason = trail[i].bottedReason

\* a snapchat series rejected at transition 1 by the ultra-low rule alone, with
\* no note for that transition
C12_Witness ==
    /\ platform = "snapchat"
    /\ verdict = "true"
    /\ Len(trail) = 2
    /\ UltraLowAt(1) /\ trail[1].shouldReject /\ trail[1].bottedReason = <<>>
    /\ NotesOf(1) = {}

\* metric m is glitched on transition i: the current reading is a single dropout
\* between two positive readings, or the previous reading is one
MetricGlitchedAt(m, i) ==
    \/ /\ isZeroish(ScanAt(scans, i)[m])
       /\ i + 1 < Len(scans)
       /\ jsGt(ScanAt(scans, i - 1)[m], 0)
       /\ jsGt(ScanAt(scans, i + 1)[m], 0)
    \/ /\ isZeroish(ScanAt(scans, i - 1)[m])
       /\ i >= 2
       /\ jsGt(ScanAt(scans, i - 2)[m], 0)
       /\ jsGt(ScanAt(scans, i)[m], 0)

\* C13: the reason 'zero saves at 5k+ views (TikTok)' is emitted, and the
\* transition rejected, exactly when the platform is tiktok, the current scan has
\* at least 5000 views and saves = 0, and saves is not glitched on the
\* transition; 4999 views never give it, and no other platform gets it
C13_TikTokZeroSavesBoundary ==
    \A i \in 1..Len(trail) :
        /\ Emits(trail[i], "zero saves at 5k+ views (TikTok)")
             <=> /\ algoPlatform(platform) = "tiktok"
                 /\ ScanAt(scans, i).views >= 5000
                 /\ ScanAt(scans, i).saves = 0
                 /\ ~MetricGlitchedAt("saves", i)
        /\ Emits(trail[i], "zero saves at 5k+ views (TikTok)") => trail[i].shouldReject
        /\ ScanAt(scans, i).views = 4999
             => ~Emits(trail[i], "zero saves at 5k+ views (TikTok)")

\* a tiktok series whose second scan has 4999 views and no saves, without the
\* reason, and whose third has 5000 views and no saves, with it
C13_Witness ==
    /\ platform = "tiktok"
    /\ Len(trail) = 2
    /\ ScanAt(scans, 1).views = 4999 /\ ScanAt(scans, 1).saves = 0
    /\ ~Emits(trail[1], "zero saves at 5k+ views (TikTok)")
    /\ ScanAt(scans, 2).views = 5000 /\ ScanAt(scans, 2).saves = 0
    /\ Emits(trail[2], "zero saves at 5k+ views (TikTok)")
    /\ trail[2].shouldReject

\* the engine on transition i, asked to log its notes
AlgoWithNotesAt(i) == detectBotAlgo(Props(scans, i, algoPlatform(platform), TRUE))

\* C14: detectBotAlgo returns the same shouldReject and bottedReason with
\* logNotes = true as without it: the zero-comments and low-comment-ratio notes
\* at views > 5000 add no reason and set no reject flag
C14_NotesNeverReject ==
    \A i \in 1..Len(trail) :
        /\ AlgoWithNotesAt(i).shouldReject = trail[i].shouldReject
        /\ AlgoWithNotesAt(i).bottedReason = trail[i].bottedReason
        /\ trail[i].notes = <<>>

\* a transition that logs both notes and is not rejected, and one that logs
\* them and is rejected for other reasons
C14_Witness ==
    /\ \E i \in 1..Len(trail) :
          /\ Len(AlgoWithNotesAt(i).notes) = 2
          /\ ~trail[i].shouldReject /\ trail[i].bottedReason = <<>>
    /\ \E i \in 1..Len(trail) :
          /\ AlgoWithNotesAt(i).notes # <<>>
          /\ trail[i].shouldReject /\ trail[i].bottedReason # <<>>

(* Exceptions inside the window's try block *)
\* the fault met by the engine call of transition i, as its catch clause logged it
FaultAt(i) ==
    IF trail[i].notes # <<>> /\ trail[i].notes[1][1] = "Error in plateau detection"
    THEN trail[i].notes[1][2]
    ELSE "none"

\* the window reasons that were not yet appended when the fault struck
LostTo(fault) ==
    CASE fault = "at slice" ->
             {"suspicious plateau -> jump -> plateau pattern", "small plateau-step pattern"}
      [] fault = "after plateau rule" -> {"small plateau-step pattern"}
      [] OTHER -> {}

\* the reasons of the undisturbed evaluation of transition i, without the lost ones
Kept(i) == SelectSeq(AlgoAt(i).bottedReason, LAMBDA r : r[1] \notin LostTo(FaultAt(i)))

\* C15: when the evaluation of the 6-scan window fails, detectBotAlgo still
\* returns, with everything the pairwise rules set and every window reason
\* appended before the failure, and detectBotDuringScan goes on to evaluate the
\* remaining transitions and returns its boolean
C15_WindowFailuresContained ==
    /\ (verdict # "not called" /\ Len(scans) >= 2) =>
          /\ Evaluated
          /\ Len(trail) = Len(scans) - 1
          /\ (verdict = "true") <=> (\E i \in 1..Len(trail) : trail[i].shouldReject)
    /\ \A i \in 1..Len(trail) :
          /\ trail[i].bottedReason = Kept(i)
          /\ trail[i].shouldReject <=> (Kept(i) # <<>> \/ UltraLowAt(i))

\* a series of six scans whose window fails at allScans.slice on a transition
\* that a pairwise rule rejects and a window rule would have rejected too: the
\* pairwise reason is kept, and a later transition still gets its window reason
C15_Witness ==
    /\ Len(trail) = 5
    /\ \E i \in 1..4 :
          /\ FaultAt(i) = "at slice"
          /\ Len(AlgoAt(i).bottedReason) > Len(trail[i].bottedReason)
          /\ trail[i].bottedReason # <<>>
          /\ trail[i].shouldReject
          /\ \E j \in (i + 1)..5 :
                Len(trail[j].bottedReason) > Len(enginePairwise(
                    Props(scans, j, algoPlatform(platform), FALSE)).bottedReason)

(* Rules on the likes pair *)
\* the pair of readings of metric m that transition i compares: the current
\* reading is replaced with the next one when it is zero between two positive
\* readings
BridgedAt(m, i) ==
    /\ i + 1 < Len(scans)
    /\ isZeroish(ScanAt(scans, i)[m])
    /\ jsGt(ScanAt(scans, i - 1)[m], 0)
    /\ jsGt(ScanAt(scans, i + 1)[m], 0)

EffectiveAt(m, i) ==
    LET c == IF BridgedAt(m, i) THEN i + 1 ELSE i IN
    [prev |-> toNum(ScanAt(scans, i - 1)[m]),
     curr |-> toNum(ScanAt(scans, c)[m]),
     prevViews |-> ScanAt(scans, i - 1).views,
     currViews |-> ScanAt(scans, c).views]

LikesRulesApply == algoPlatform(platform) \notin {"youtube", "snapchat"}

\* C16: on platforms other than youtube and snapchat the reason 'views doubled
\* quickly without corresponding jump in likes' is emitted, and the transition
\* rejected, exactly when on the effective likes pair currViews > 1000,
\* currViews > 2 * prevViews and curr <= 1.2 * prev; so also when curr is
\* exactly 1.2 * prev and when prev = curr = 0
C16_ViewsDoubledLikesAtMostFifthMore ==
    \A i \in 1..Len(trail) :
        LikesRulesApply =>
            /\ Emits(trail[i], "views doubled quickly without corresponding jump in likes")
                 <=> /\ EffectiveAt("likes", i).currViews > 1000
                     /\ EffectiveAt("likes", i).currViews > 2 * EffectiveAt("likes", i).prevViews
                     /\ 10 * EffectiveAt("likes", i).curr <= 12 * EffectiveAt("likes", i).prev
            /\ Emits(trail[i], "views doubled quickly without corresponding jump in likes")
                 => trail[i].shouldReject

\* views 1000 -> 2001 with likes 150 -> 180, exactly 1.2 times as many: the
\* reason is not given
C16_Witness ==
    /\ LikesRulesApply
    /\ Len(trail) = 1
    /\ ScanAt(scans, 0).views = 1000 /\ ScanAt(scans, 1).views = 2001
    /\ ScanAt(scans, 0).likes = 150 /\ ScanAt(scans, 1).likes = 180
    /\ ~Emits(trail[1], "views doubled quickly without corresponding jump in likes")

\* the conditions of the like-ratio collapse on the pair E
BigJump(E) == E.currViews >= 5 * E.prevViews \/ E.currViews - E.prevViews >= 5000

PrevLikeRatioPositive(E) == E.prevViews > 0 /\ E.prev > 0

\* prevLikeRatio / max(currLikeRatio, 1e-9) >= 3 in doubles
DropFactorAtLeast3(E) ==
    IF E.currViews > 0 /\ E.curr > 0
    THEN /\ E.prev * E.currViews >= 3 * E.curr * E.prevViews
         /\ <<E.prev, E.prevViews, E.curr, E.currViews>> \notin quotientRoundsBelow3
    ELSE TRUE

CollapseExpected(i) ==
    /\ BigJump(EffectiveAt("likes", i))
    /\ PrevLikeRatioPositive(EffectiveAt("likes", i))
    /\ DropFactorAtLeast3(EffectiveAt("likes", i))

Metrics == {"likes", "comments", "shares", "saves"}

\* the reasons of the rules that are held back when metric m is glitched
GatedReasons(m) ==
    CASE m = "likes" ->
             {"views grew but <2 likes change",
              "likes spiked (>=1.5x) without corresponding jump in views",
              "zero likes",
              "massive view jump with like-ratio collapse"}
      [] m = "comments" ->
             {"massive comment drop",
              "comments jumped with minimal view change",
              "sus comment injection"}
      [] m = "shares" ->
             {"shares appeared (0->n) without corresponding jump in views",
              "shares grew quickly without corresponding jump in views",
              "shares appeared (0->X) without corresponding jump in views",
              "zero shares at 10k+ views (TikTok)"}
      [] m = "saves" ->
             {"saves appeared (0->n) without corresponding jump in views",
              "saves grew quickly without corresponding jump in views",
              "saves appeared (0->X) without corresponding jump in views",
              "zero saves at 5k+ views (TikTok)"}

\* scan k reads zero (or nothing) for m between two positive readings
DropoutAt(m, k) ==
    /\ k >= 1 /\ k + 1 < Len(scans)
    /\ isZeroish(ScanAt(scans, k)[m])
    /\ jsGt(ScanAt(scans, k - 1)[m], 0)
    /\ jsGt(ScanAt(scans, k + 1)[m], 0)

\* C18: when scan k is a single dropout of metric m between two positive
\* readings, no glitch-gated rule of m fires at transition k or at transition
\* k + 1
C18_DropoutSuppressedOnBothSides ==
    \A m \in Metrics : \A k \in 1..(Len(trail) - 1) :
        DropoutAt(m, k) =>
            \A msg \in GatedReasons(m) :
                ~Emits(trail[k], msg) /\ ~Emits(trail[k + 1], msg)

\* shares 1, 0, 40 at nearly flat views: the second transition, 0 -> 40, is
\* evaluated and gives no shares reason
C18_Witness ==
    /\ Len(trail) = 2
    /\ DropoutAt("shares", 1)
    /\ ScanAt(scans, 2).shares >= 10
    /\ ScanAt(scans, 2).views < 2 * ScanAt(scans, 1).views
    /\ \A msg \in GatedReasons("shares") : ~Emits(trail[1], msg) /\ ~Emits(trail[2], msg)

(* Bridging *)
\* what getEffectivePair returns for metric m inside the engine call of transition i
PairAt(m, i) == getEffectivePair(m, Props(scans, i, algoPlatform(platform), FALSE))

\* a reading that is not a finite number counts as 0
ReadAsZero(v) == IF v = Undef THEN 0 ELSE v

\* C19: getEffectivePair returns bridged = true, with the next scan's value and
\* views as curr and currViews, exactly when a next scan exists, m[i] is
\* zero-ish, m[i-1] > 0 and m[i+1] > 0; otherwise it returns the raw pair with
\* bridged = false, readings that are not finite numbers counted as 0; prev and
\* prevViews are those of scan i-1 in both cases
C19_BridgingDefinition ==
    \A m \in Metrics : \A i \in 1..Len(trail) :
        /\ PairAt(m, i).bridged
             <=> /\ i + 1 < Len(scans)
                 /\ ScanAt(scans, i)[m] \in {0, Undef}
                 /\ ScanAt(scans, i - 1)[m] > 0
                 /\ ScanAt(scans, i + 1)[m] > 0
        /\ PairAt(m, i).bridged =>
             /\ PairAt(m, i).curr = ScanAt(scans, i + 1)[m]
             /\ PairAt(m, i).currViews = ScanAt(scans, i + 1).views
        /\ ~PairAt(m, i).bridged =>
             /\ PairAt(m, i).curr = ReadAsZero(ScanAt(scans, i)[m])
             /\ PairAt(m, i).currViews = ScanAt(scans, i).views
        /\ PairAt(m, i).prev = ReadAsZero(ScanAt(scans, i - 1)[m])
        /\ PairAt(m, i).prevViews = ScanAt(scans, i - 1).views

\* saves 1, undefined, 40 at views 2000, 2000, 2010: the first transition is
\* bridged to the third scan, the second compares 0 with 40 unbridged
C19_Witness ==
    /\ Len(trail) = 2
    /\ ScanAt(scans, 1).saves = Undef
    /\ ScanAt(scans, 2).views # ScanAt(scans, 1).views
    /\ PairAt("saves", 1).bridged
    /\ PairAt("saves", 1).curr = ScanAt(scans, 2).saves
    /\ PairAt("saves", 1).currViews = ScanAt(scans, 2).views
    /\ ~PairAt("saves", 2).bridged
    /\ PairAt("saves", 2).prev = 0

(* What the zero-likes summarization removes *)
\* transition i (current scan at position i + 1 of the series) lies in a run
\* that the report summarizes
InSummarizedRun(i) ==
    \E k \in 1..Len(printed.flagged) :
        /\ printed.flagged[k].kind = "zero likes across scans"
        /\ printed.flagged[k].from <= i + 1
        /\ i + 1 <= printed.flagged[k].to

\* the report still has reason r of transition i
StillFlagged(i, r) ==
    \E k \in 1..Len(printed.flagged) :
        /\ printed.flagged[k].kind = "scan"
        /\ printed.flagged[k].index = i
        /\ \E n \in 1..Len(printed.flagged[k].reasons) : printed.flagged[k].reasons[n] = r

ZeroLikesSummarized ==
    \E k \in 1..Len(printed.flagged) : printed.flagged[k].kind = "zero likes across scans"

\* C20: when analyzeUrl produces a zero-likes summary, it removes from flagged
\* only the 'zero likes' reason of the transitions inside a summarized run: every
\* other reason of the flagged transitions, and the 'zero likes' reason of a
\* transition outside the runs, is still in flagged
C20_OnlyRunLinesReplaced ==
    (Fetched /\ ZeroLikesSummarized) =>
        \A k \in 1..Len(PairwiseFlagged) :
            \A n \in 1..Len(PairwiseFlagged[k].reasons) :
                (\/ PairwiseFlagged[k].reasons[n][1] # "zero likes"
                 \/ ~InSummarizedRun(PairwiseFlagged[k].index))
                    => StillFlagged(PairwiseFlagged[k].index, PairwiseFlagged[k].reasons[n])

\* a tiktok page with a first scan of 1000 views and five scans of 2000 views,
\* all without likes: the first transition was flagged for 'views grew but <2
\* likes change' too, and the report holds the summary only
C20_Witness ==
    /\ Fetched /\ PagePlatform = "tiktok"
    /\ ZeroLikesSummarized
    /\ \E k \in 1..Len(PairwiseFlagged) :
          \E n \in 1..Len(PairwiseFlagged[k].reasons) :
              /\ PairwiseFlagged[k].reasons[n][1] = "views grew but <2 likes change"
              /\ ~StillFlagged(PairwiseFlagged[k].index, PairwiseFlagged[k].reasons[n])
    /\ \A k \in 1..Len(printed.flagged) : printed.flagged[k].kind = "zero likes across scans"

(* Run detection *)
\* the maximal runs of at least minRun consecutive scans of the page that meet
\* the condition Holds, as pairs of 1-based positions
MaximalRuns(Holds(_), minRun) ==
    {ab \in (1..Len(PageValid)) \X (1..Len(PageValid)) :
        /\ ab[2] - ab[1] + 1 >= minRun
        /\ \A k \in ab[1]..ab[2] : Holds(PageValid[k])
        /\ ab[1] > 1 => ~Holds(PageValid[ab[1] - 1])
        /\ ab[2] < Len(PageValid) => ~Holds(PageValid[ab[2] + 1])}

\* msgs has one line per such run, in series order, with the run's first and
\* last position and its length
OneLinePerRun(msgs, what, Holds(_), minRun) ==
    /\ Len(msgs) = Cardinality(MaximalRuns(Holds, minRun))
    /\ \A j \in 1..Len(msgs) :
          /\ msgs[j].kind = what
          /\ <<msgs[j].from, msgs[j].to>> \in MaximalRuns(Holds, minRun)
          /\ msgs[j].count = msgs[j].to - msgs[j].from + 1
    /\ \A j \in 1..(Len(msgs) - 1) : msgs[j].from < msgs[j + 1].from

ZeroComments(sc) == sc.views > 5000 /\ sc.comments = 0
LowCommentRatio(sc) == sc.views > 5000 /\ 100 * sc.comments < sc.views
UltraLowEngagement(sc) ==
    /\ PagePlatform = "snapchat"
    /\ sc.views > 20000 /\ sc.comments = 0 /\ sc.shares <= 1

\* C21: each of the four summarizers returns, in series order, exactly one line
\* per maximal run of consecutive scans meeting its condition whose length is at
\* least minRun (5 for zero likes, 3 for the others), a run reaching the end of
\* the series included; the line has the 1-based first and last positions of the
\* run and its length, and shorter runs give no line
C21_OneLinePerMaximalRun ==
    Fetched =>
        /\ OneLinePerRun(summarizeZeroLikes(PageValid, PagePlatform, 1000, 5),
                         "zero likes across scans", ZeroLike, 5)
        /\ OneLinePerRun(summarizeZeroComments(PageValid, PagePlatform, 5000, 3),
                         "zero comments across scans", ZeroComments, 3)
        /\ OneLinePerRun(summarizeLowCommentRatio(PageValid, PagePlatform, 5000, 3),
                         "low comment ratio across scans", LowCommentRatio, 3)
        /\ OneLinePerRun(summarizeUltraLowEngagement(PageValid, PagePlatform, 20000, 3),
                         "ultra-low engagement across scans", UltraLowEngagement, 3)

\* a snapchat page of seven scans: three without comments, one with, three
\* without.  Two lines each for zero comments and ultra-low engagement, the
\* second for the run that ends the series; no line for the runs of three scans
\* without likes
C21_Witness ==
    /\ Fetched /\ PagePlatform = "snapchat"
    /\ Len(PageValid) = 7
    /\ summarizeZeroComments(PageValid, PagePlatform, 5000, 3) =
          <<SummaryLine("zero comments across scans", 1, 3, 3),
            SummaryLine("zero comments across scans", 5, 7, 3)>>
    /\ Len(summarizeUltraLowEngagement(PageValid, PagePlatform, 20000, 3)) = 2
    /\ summarizeZeroLikes(PageValid, PagePlatform, 1000, 5) = <<>>
    /\ \E k \in 1..Len(printed.flagged) :
          printed.flagged[k] = SummaryLine("ultra-low engagement across scans", 5, 7, 3)

(* parseScans *)
\* what parseScans returns for the page, and the records of all its columns,
\* oldest first
Parsed == parseScans(html, PagePlatform)
AllColumns == Reverse([k \in 1..Len(html) |-> parseColumn(html[k], PagePlatform)])

NonZeroMetrics(sc) ==
    sc.views # 0 \/ sc.likes # 0 \/ sc.comments # 0 \/ sc.shares # 0 \/ sc.saves # 0

\* C22: the series returned by parseScans is empty or ends in a record with a
\* non-zero metric; only trailing records are removed, each of them with all
\* metrics zero, so an all-zero record followed by a non-zero one is kept
C22_EndsInNonZeroRecord ==
    Fetched =>
        /\ Parsed = <<>> \/ NonZeroMetrics(Parsed[Len(Parsed)])
        /\ Len(Parsed) <= Len(AllColumns)
        /\ Parsed = SubSeq(AllColumns, 1, Len(Parsed))
        /\ \A k \in (Len(Parsed) + 1)..Len(AllColumns) : ~NonZeroMetrics(AllColumns[k])

\* a page whose newest column holds a placeholder and zeros: the series
\* returned ends in a record whose metrics are all zero
C22_Witness ==
    /\ Fetched
    /\ Parsed # <<>>
    /\ ~NonZeroMetrics(Parsed[Len(Parsed)])
    /\ Parsed[Len(Parsed)].missing

\* the table column that record j of the parsed series was built from
ColumnOf(j) == html[Len(html) + 1 - j]

\* the cell is a number
Finite(cell) == cell >= 0

\* C23: every metric cell that does not parse to a finite number is stored as 0
\* and marks its record missing; a record all of whose cells parse to finite
\* numbers is not marked; and no record marked missing is among the scans
\* analyzeUrl hands to detectBotAlgo
C23_UnparsedCellsMarkMissing ==
    Fetched =>
        /\ \A j \in 1..Len(Parsed) :
              /\ \A m \in tableMetrics(PagePlatform) :
                    ~Finite(ColumnOf(j)[m]) => (Parsed[j][m] = 0 /\ Parsed[j].missing)
              /\ (\A m \in tableMetrics(PagePlatform) : Finite(ColumnOf(j)[m]))
                    => ~Parsed[j].missing
        /\ \A k \in 1..Len(PageValid) : ~PageValid[k].missing

\* a likes cell with text that is no number and no placeholder: the record has
\* likes 0, is not marked missing and is among the scans evaluated
C23_Witness ==
    /\ Fetched
    /\ \E j \in 1..Len(Parsed) :
          /\ ColumnOf(j).likes = GarbageCell
          /\ Parsed[j].likes = 0
          /\ ~Parsed[j].missing
          /\ \E k \in 1..Len(PageValid) : PageValid[k] = Parsed[j]

(* The 6-scan window on series longer than the window *)
WindowStartOf(i) == Max(0, Min(i - 3, Len(scans) - 6))

\* the views quoted by the window reasons of transition i
QuotedWindows(i) ==
    {SubSeq(trail[i].bottedReason[k], 2, 7) :
        k \in {j \in 1..Len(trail[i].bottedReason) :
                 trail[i].bottedReason[j][1] = "suspicious plateau -> jump -> plateau pattern"}}
    \cup
    {SubSeq(trail[i].bottedReason[k], 4, 9) :
        k \in {j \in 1..Len(trail[i].bottedReason) :
                 trail[i].bottedReason[j][1] = "small plateau-step pattern"}}

\* C24: for n >= 6 scans on a non-youtube platform the window of transition i is
\* the 6 scans from s = max(0, min(i-3, n-6)) on; 0 <= s <= n-6, so the window
\* lies inside the series, and it contains scan i; on youtube or with n < 6 no
\* window reason is produced
C24_WindowSelection ==
    \A i \in 1..Len(trail) :
        /\ (algoPlatform(platform) # "youtube" /\ Len(scans) >= 6) =>
              /\ 0 <= WindowStartOf(i) /\ WindowStartOf(i) <= Len(scans) - 6
              /\ WindowStartOf(i) <= i /\ i <= WindowStartOf(i) + 5
              /\ \A q \in QuotedWindows(i) :
                    q = [k \in 1..6 |-> ScanAt(scans, WindowStartOf(i) + k - 1).views]
        /\ (algoPlatform(platform) = "youtube" \/ Len(scans) < 6) => QuotedWindows(i) = {}

\* seven scans with the jump between the fourth and the fifth: the first three
\* transitions look at scans 0..5 and see no pattern, the last three look at
\* scans 1..6 and report it
C24_Witness ==
    /\ platform = "twitter"
    /\ Len(trail) = 6
    /\ QuotedWindows(1) = {} /\ QuotedWindows(3) = {}
    /\ QuotedWindows(4) # {} /\ QuotedWindows(6) # {}
    /\ WindowStartOf(3) = 0 /\ WindowStartOf(4) = 1

\* plateau of two scans, a jump of 300 or more, a larger jump of 500 or more,
\* plateau of three scans
StairStep(w) ==
    /\ Abs(w[0] - w[1]) <= 30
    /\ w[2] - w[1] >= 300
    /\ w[3] - w[2] >= 500
    /\ w[3] - w[2] > w[2] - w[1]
    /\ Abs(w[3] - w[4]) <= 30
    /\ Abs(w[4] - w[5]) <= 30

\* C25: on a non-youtube platform the 'small plateau-step pattern' reason is
\* emitted for the window w0..w5, and the transition rejected, exactly when
\* |w0-w1| <= 30, w2-w1 >= 300, w3-w2 >= 500, w3-w2 > w2-w1, |w3-w4| <= 30 and
\* |w4-w5| <= 30; a big jump equal to the small jump never gives it
C25_TwoStageStairStep ==
    \A i \in 1..Len(trail) :
        (algoPlatform(platform) # "youtube" /\ Len(scans) >= 6) =>
            /\ Emits(trail[i], "small plateau-step pattern") <=> StairStep(WindowOf(i))
            /\ Emits(trail[i], "small plateau-step pattern") => trail[i].shouldReject
            /\ WindowOf(i)[3] - WindowOf(i)[2] = WindowOf(i)[2] - WindowOf(i)[1]
                 => ~Emits(trail[i], "small plateau-step pattern")

\* every threshold met exactly: views 30, 0, 300, 800 and a plateau at the top,
\* a first plateau 30 apart, a small jump of 300 and a big jump of 500
C25_Witness ==
    /\ Len(trail) = 5
    /\ WindowOf(1)[2] - WindowOf(1)[1] = 300
    /\ WindowOf(1)[3] - WindowOf(1)[2] = 500
    /\ Abs(WindowOf(1)[0] - WindowOf(1)[1]) = 30
    /\ \A i \in 1..5 : Emits(trail[i], "small plateau-step pattern") /\ trail[i].shouldReject

(***************************************************************************)
(* C26: the verdict of a series and the verdicts of the series it grew from  *)
(***************************************************************************)
\* detectBotDuringScan on the first k scans stored
EarlierCall(k) == detectBotDuringScan(SubSeq(scans, 1, k), platform, <<>>)

WindowReasons == {"suspicious plateau -> jump -> plateau pattern",
                  "small plateau-step pattern"}

HasWindowReason(r) == \E m \in WindowReasons : Emits(r, m)

\* the call on the first k scans rejected, and only at its last transition, and
\* there only by rules on the pair of scans
RestsOnLastPairOnly(k) ==
    \A i \in 1..(k - 1) :
        EarlierCall(k).results[i].shouldReject =>
            i = k - 1 /\ ~HasWindowReason(EarlierCall(k).results[i])

\* C26 (as claimed): when detectBotDuringScan accepts a series, it accepted
\* every series the stored one was obtained from by appending scans
C26_RejectIsStable ==
    verdict = "false" =>
        \A k \in 2..Len(scans) : EarlierCall(k).returned # "true"

\* C26: when detectBotDuringScan accepts a series, an earlier series that it
\* was obtained from by appending scans was rejected only at its last
\* transition and only by the rules on the pair of scans, never by a window
\* pattern and never at a transition that had a scan after it
C26_RejectOfEarlierTransitionsIsStable ==
    verdict = "false" =>
        \A k \in 2..Len(scans) : RestsOnLastPairOnly(k)

\* seven scans accepted, whose first two were rejected while their second was
\* the last: its zero like count has turned out to be a dropout
C26_Witness ==
    /\ verdict = "false"
    /\ Len(scans) = 7
    /\ EarlierCall(2).returned = "true"
    /\ algoPlatform(platform) # "youtube"

(***************************************************************************)
(* C27: bridged pairs and the glitch flags                                 *)
(***************************************************************************)
\* the glitch flag of metric m inside the engine call of transition i
GlitchFlagAt(m, i) == glitch(m, Props(scans, i, algoPlatform(platform), FALSE))

AppearedReason(m) == m \o " appeared (0->X) without corresponding jump in views"

\* the 0->X rule of shares or saves without its test of bridged
AppearsUnbridgedOrNot(m, i) ==
    /\ ~GlitchFlagAt(m, i)
    /\ jsEq(ScanAt(scans, i - 1)[m], 0)
    /\ jsGe(ScanAt(scans, i)[m], 10)
    /\ ScanAt(scans, i).views < ScanAt(scans, i - 1).views * 2

\* C27: whenever getEffectivePair reports bridged for a metric on a transition,
\* the glitch flag of that metric is set; so a reason of a rule gated on that
\* flag is only emitted on the raw pair, which leaves 'views doubled quickly
\* without corresponding jump in likes' as the only reason emitted on a bridged
\* pair, and the shares and saves 0->X reasons are emitted exactly when their
\* conditions other than '!bridged' hold
C27_BridgedImpliesGlitched ==
    \A i \in 1..Len(trail) : \A m \in Metrics :
        /\ PairAt(m, i).bridged => GlitchFlagAt(m, i)
        /\ \A msg \in GatedReasons(m) : Emits(trail[i], msg) => ~PairAt(m, i).bridged
        /\ m \in {"shares", "saves"} =>
               (Emits(trail[i], AppearedReason(m)) <=> AppearsUnbridgedOrNot(m, i))

\* the likes pair of a transition is bridged and 'views doubled' fires on it
C27_Witness ==
    \E i \in 1..Len(trail) :
        /\ PairAt("likes", i).bridged
        /\ GlitchFlagAt("likes", i)
        /\ Emits(trail[i], "views doubled quickly without corresponding jump in likes")

(***************************************************************************)
(* C28: internalNotes over the calls of detectBotDuringScan                *)
(***************************************************************************)
\* an entry without its separator (the timestamp is not modelled)
EntryText(e) == [shouldReject |-> e.shouldReject, bottedReason |-> e.bottedReason,
                 from |-> e.from, to |-> e.to]

\* the transitions of a call's results that gave a non-blank bottedReason
FiredIn(results) == {i \in 1..Len(results) : nonBlank(results[i].bottedReason)}

\* C28: every step keeps internalNotes as the beginning of the new
\* internalNotes; a call that writes adds, in the order of the transitions,
\* exactly one entry for every transition with a non-blank bottedReason, so none
\* when no reason fired; and a call on the series of the call before it adds
\* the entries that call added once more
C28_NotesAppendOnly ==
    [][ LET old == Len(internalNotes)
            added == Len(internalNotes') - old
            fired == FiredIn(trail')
        IN  /\ added >= 0
            /\ SubSeq(internalNotes', 1, old) = internalNotes
            /\ notesWrites' = notesWrites => added = 0
            /\ notesWrites' # notesWrites =>
                 /\ added = Cardinality(fired)
                 /\ \A i \in fired : \E j \in 1..added :
                        /\ EntryText(internalNotes'[old + j])
                             = [shouldReject |-> trail'[i].shouldReject,
                                bottedReason |-> trail'[i].bottedReason,
                                from |-> i, to |-> i + 1]
                        /\ j = Cardinality({h \in fired : h <= i})
                 /\ (notesWrites >= 1 /\ Len(trail) = Len(scans) - 1) =>
                        /\ old >= added
                        /\ \A j \in 1..added :
                               EntryText(internalNotes'[old + j])
                                 = EntryText(internalNotes[old - added + j])
      ]_vars

\* two calls on one series of four scans: the second call has added the two
\* entries of the first once more, behind them
C28_Witness ==
    /\ notesWrites = 2
    /\ Len(scans) = 4
    /\ Len(internalNotes) = 4
    /\ Cardinality(FiredIn(trail)) = 2
    /\ EntryText(internalNotes[1]) = EntryText(internalNotes[3])
    /\ EntryText(internalNotes[2]) = EntryText(internalNotes[4])

(***************************************************************************)
(* C29: the windows looked at over the transitions of one series           *)
(***************************************************************************)
\* the window start offset inside the engine call of transition i
StartUsedAt(i) == windowStart(Props(scans, i, algoPlatform(platform), FALSE))

\* the views of the six scans from offset s on
ViewsFrom(s) == [k \in 0..5 |-> scans[s + k + 1].views]

AsQuoted(w) == <<w[0], w[1], w[2], w[3], w[4], w[5]>>

\* C29: on a non-youtube series of n >= 6 scans the window start offsets used
\* over the transitions 1..n-1 are exactly 0..n-6, and a plateau-jump-plateau or
\* stair-step shape in any six contiguous scans is reported, with these six view
\* counts, by some transition, and the series is rejected
C29_WindowCoverage ==
    (algoPlatform(platform) # "youtube" /\ Len(scans) >= 6 /\ verdict # "not called") =>
        /\ {StartUsedAt(i) : i \in 1..Len(trail)} = 0..(Len(scans) - 6)
        /\ \A s \in 0..(Len(scans) - 6) :
               (PlateauJumpPlateau(ViewsFrom(s)) \/ StairStep(ViewsFrom(s))) =>
                   /\ verdict = "true"
                   /\ \E i \in 1..Len(trail) :
                          /\ AsQuoted(ViewsFrom(s)) \in QuotedWindows(i)
                          /\ trail[i].shouldReject

\* seven scans whose last six are a stair-step and whose first six are no
\* pattern: the shape is found at offset 1
C29_Witness ==
    /\ verdict = "true"
    /\ Len(scans) = 7
    /\ algoPlatform(platform) # "youtube"
    /\ StairStep(ViewsFrom(1))
    /\ ~StairStep(ViewsFrom(0)) /\ ~PlateauJumpPlateau(ViewsFrom(0))

(***************************************************************************)
(* C30: the copy of detectBotAlgo in the runner against the engine         *)
(***************************************************************************)
\* the reasons of the rules the copy does not have
EngineOnlyReasons == {"early 20k+ view jump within first 5 scans",
                      "zero saves at 5k+ views (TikTok)",
                      "zero shares at 10k+ views (TikTok)"}

NotEngineOnly(reason) == reason[1] \notin EngineOnlyReasons

\* the two functions on the Props of transition i
EngineOn(i, logNotes) == detectBotAlgo(Props(scans, i, algoPlatform(platform), logNotes))
RunnerOn(i, logNotes) == runnerDetectBotAlgo(Props(scans, i, algoPlatform(platform), logNotes))

\* C30: on every input the reasons of the runner's copy are the reasons of the
\* engine, in the engine's order, without those of the early-20k-jump, TikTok
\* zero-saves and TikTok zero-shares rules; the copy rejects only if the engine
\* rejects; and the two results differ only where one of these three rules
\* fires in the engine
C30_RunnerCopyAgainstEngine ==
    \A i \in 1..Len(trail) : \A logNotes \in BOOLEAN :
        /\ RunnerOn(i, logNotes).bottedReason
             = SelectSeq(EngineOn(i, logNotes).bottedReason, NotEngineOnly)
        /\ RunnerOn(i, logNotes).shouldReject => EngineOn(i, logNotes).shouldReject
        /\ RunnerOn(i, logNotes) # EngineOn(i, logNotes) =>
               \E msg \in EngineOnlyReasons : Emits(EngineOn(i, logNotes), msg)

\* a tiktok transition where all three rules fire in the engine among reasons
\* that the copy gives too
C30_Witness ==
    \E i \in 1..Len(trail) :
        /\ \A msg \in EngineOnlyReasons : Emits(trail[i], msg)
        /\ trail[i] = EngineOn(i, FALSE)
        /\ Len(RunnerOn(i, FALSE).bottedReason) >= 2
        /\ Len(trail[i].bottedReason) = Len(RunnerOn(i, FALSE).bottedReason) + 3

====
